---- MODULE Spec2Model ----
(***************************************************************************)
(* Model of the RepRap G-code protocol engine of OctoPrint                 *)
(* (src/octoprint/comm/protocol/reprap): the line-numbered send /          *)
(* acknowledge / resend machine, the send token, the three queues, the     *)
(* send loop and the job / pause / cancel state machine.                   *)
(*                                                                         *)
(* Threads: "recv" (receive dispatcher), "send" (send loop), "client"      *)
(* (callers of the public API) and the timer threads.  One action is one   *)
(* handler, or one stretch of a handler between two suspension points.     *)
(***************************************************************************)
EXTENDS Integers, Sequences, FiniteSets, TLC

\* ------------------------------------------------------------------ bounds
\* highest value current_linenumber may reach through sending
MaxLine == 4
\* number of lines of the job file
JobLen == 2
\* pending entries a queue may hold before the environment stops adding
MaxQueue == 2
\* highest ignore quota explored for the send token on its own
MaxIgnored == 3

\* -------------------------------------------------------- program constants
\* SendToken(max=10)
TokenMax == 10
\* LineHistory(max=50)
HistoryMax == 50
\* max_consecutive_timeouts defaults
MaxConsecutiveIdle == 2
MaxConsecutivePrinting == 5
MaxConsecutiveLong == 5

\* Python's None for the integer-or-None fields: a value no line number takes
None == 0 - 9

\* ------------------------------------------------------------------ helpers
Min(a, b) == IF a < b THEN a ELSE b
Max(a, b) == IF a > b THEN a ELSE b
Last(q) == q[Len(q)]

\* ---------------------------------------------------------------- commands
\* A G-code command: its code and one numeric argument (N of M110, the index
\* of a job line, S of M104/M140).  type is the deduplication key, src the
\* provenance tag, on_sent the per-command callback.
Cmd(code, arg, type, src, on_sent) ==
    [kind |-> "cmd", code |-> code, arg |-> arg, type |-> type, src |-> src,
     on_sent |-> on_sent, linenumber |-> None]

\* A command that is not G-code: its text is written as it is
Unknown(text, src) ==
    [kind |-> "unknown", code |-> text, arg |-> 0, type |-> "none", src |-> src,
     on_sent |-> "none", linenumber |-> None]

\* An AtCommand, "@..."
AtCmd(text, src) ==
    [kind |-> "at", code |-> text, arg |-> 0, type |-> "none", src |-> src,
     on_sent |-> "none", linenumber |-> None]

\* SendQueueMarker(callback)
Marker(callback) ==
    [kind |-> "marker", code |-> callback, arg |-> 0, type |-> "none",
     src |-> "job", on_sent |-> "none", linenumber |-> None]

NoEntry ==
    [kind |-> "none", code |-> "", arg |-> 0, type |-> "none", src |-> "",
     on_sent |-> "none", linenumber |-> None]

\* the texts to_command takes for an AtCommand, and for a command that is
\* neither G-code nor an AtCommand (the empty line is one of them)
AtTexts == {"@note"}
UnknownTexts == {"", "FOO"}

\* The text of a command as it is written and stored in the line history.
LineOf(c) == <<c.code, c.arg>>

\* to_command(line): a resent line is parsed again; type, tags and callback
\* are not part of the text.
ToCommand(line) ==
    IF line[1] \in AtTexts THEN AtCmd(line[1], "resend")
    ELSE IF line[1] \in UnknownTexts THEN Unknown(line[1], "resend")
    ELSE Cmd(line[1], line[2], "none", "resend", "none")

\* ------------------------------------------ normalize_command_handler_result
\* Python's None where a handler result has its line
NullLine == "None"

\* An entry of a handler result: nothing ("none"), a string ("str"), a
\* Command ("command"), a tuple of len elements (line, type, tags), or a
\* value of another kind ("other").
HandlerEntry(kind, len, line, type) ==
    [kind |-> kind, len |-> len, line |-> line, type |-> type]

\* to_command(line, type=..., tags=...)
ToCommandWith(line, type, src) == Cmd(line, 0, type, src, "none")

\* the loop over the entries, keeping tuples of every length
RECURSIVE NormalizeEntriesAnyLength(_, _)
NormalizeEntriesAnyLength(original, entries) ==
    IF entries = <<>> THEN <<>>
    ELSE LET e == Head(entries)
             rest == NormalizeEntriesAnyLength(original, Tail(entries))
         IN  IF e.kind = "none" THEN rest
             ELSE IF e.kind \in {"str", "command"}
             THEN <<IF e.line # original.code
                    THEN ToCommandWith(e.line, original.type, "rewrite")
                    ELSE original>> \o rest
             ELSE IF e.kind = "tuple" /\ e.line # NullLine
             THEN <<ToCommandWith(e.line, e.type, "rewrite")>> \o rest
             ELSE rest

\* the loop over the entries of a handler result
RECURSIVE NormalizeEntries(_, _)
NormalizeEntries(original, entries) ==
    IF entries = <<>> THEN <<>>
    ELSE LET e == Head(entries)
             rest == NormalizeEntries(original, Tail(entries))
         IN  IF e.kind = "none" THEN rest
             ELSE IF e.kind \in {"str", "command"}
             THEN <<IF e.line # original.code
                    THEN ToCommandWith(e.line, original.type, "rewrite")
                    ELSE original>> \o rest
             ELSE IF e.kind = "tuple"
             THEN IF e.len \notin {1, 2, 3} THEN rest
                  ELSE IF e.line = NullLine THEN rest
                  ELSE LET command_type == IF e.len >= 2 THEN e.type ELSE original.type
                           command_tags == IF e.len = 3 THEN "hook" ELSE original.src
                           changed == e.line # original.code \/ command_type # original.type
                       IN  <<ToCommandWith(e.line, command_type,
                                           IF changed THEN "rewrite" ELSE command_tags)>>
                           \o rest
             ELSE rest

\* normalize_command_handler_result for a handler result that is None
\* (null) or a list of entries
NormalizeCommandHandlerResult(command, null, entries) ==
    IF null THEN <<command>> ELSE NormalizeEntries(command, entries)

\* ------------------------------------------------------------ LineHistory
\* lines: the stored (line, line_number) pairs in insertion order;
\* lookup: line number -> line
LineHistoryNew == [lines |-> <<>>, lookup |-> <<>>]

LineHistoryContains(h, n) == \E i \in 1..Len(h.lookup) : h.lookup[i][1] = n

LineHistoryGet(h, n) ==
    LET i == CHOOSE i \in 1..Len(h.lookup) : h.lookup[i][1] = n
    IN  h.lookup[i][2]

LookupDel(lk, n) == SelectSeq(lk, LAMBDA p : p[1] # n)

LookupPut(lk, n, line) == Append(LookupDel(lk, n), <<n, line>>)

\* a cleanup that forgets the evicted entries but not their line numbers
RECURSIVE LineHistoryCleanupLines(_, _)
LineHistoryCleanupLines(h, max) ==
    IF Len(h.lines) <= max THEN h
    ELSE LineHistoryCleanupLines([h EXCEPT !.lines = Tail(@)], max)

RECURSIVE LineHistoryCleanup(_, _)
LineHistoryCleanup(h, max) ==
    IF Len(h.lines) <= max THEN h
    ELSE LET ln == Head(h.lines)[2]
         IN  LineHistoryCleanup(
                 [lines  |-> Tail(h.lines),
                  lookup |-> IF ln # None THEN LookupDel(h.lookup, ln)
                             ELSE h.lookup],
                 max)

LineHistoryAppend(h, line, n, max) ==
    LineHistoryCleanup(
        [lines  |-> Append(h.lines, <<line, n>>),
         lookup |-> IF n # None THEN LookupPut(h.lookup, n, line) ELSE h.lookup],
        max)

LineHistoryClear(h) == LineHistoryNew

\* ------------------------------------------------------ TemperatureRecord
\* the tools a temperature is reported for: 0..MaxTool
MaxTool == 1
ToolIds == 0..MaxTool

\* a tool the record has no entry for
NoSlot == <<>>

\* TemperatureRecord(): _tools = {}, _bed = _chamber = (None, None)
TemperatureRecordNew ==
    [tools |-> [i \in ToolIds |-> NoSlot], bed |-> <<None, None>>,
     chamber |-> <<None, None>>]

\* an update that takes both values as given
ToNewTupleAsGiven(current, actual, target) == <<actual, target>>

\* _to_new_tuple
ToNewTuple(current, actual, target) ==
    LET cur == IF Len(current) # 2 THEN <<None, None>> ELSE current
    IN  IF actual = None /\ target = None THEN cur
        ELSE IF actual = None THEN <<cur[1], target>>
        ELSE IF target = None THEN <<actual, cur[2]>>
        ELSE <<actual, target>>

\* set_tool: _tools.get(tool, (None, None))
SetTool(r, tool, actual, target) ==
    LET current == IF r.tools[tool] = NoSlot THEN <<None, None>> ELSE r.tools[tool]
    IN  [r EXCEPT !.tools[tool] = ToNewTuple(current, actual, target)]

SetBed(r, actual, target) == [r EXCEPT !.bed = ToNewTuple(@, actual, target)]

SetChamber(r, actual, target) == [r EXCEPT !.chamber = ToNewTuple(@, actual, target)]

\* -------------------------------------------------------------- SendToken
\* a counter that is not kept within its range
InternalSetUnclamped(value, max) == value

\* CountedEvent._internal_set: the counter is kept within [0, max]
InternalSet(value, max) == Max(0, Min(value, max))

SendTokenNew == [counter |-> 0, ignored |-> 0]

SendTokenSet(t, ignore, max) ==
    [counter |-> InternalSet(t.counter + 1, max),
     ignored |-> IF ignore THEN t.ignored + 1 ELSE t.ignored]

\* a clear that leaves the token as it is
SendTokenKeep(t, completely, max) == t

SendTokenClear(t, completely, max) ==
    IF completely
    THEN [counter |-> InternalSet(0, max), ignored |-> 0]
    ELSE IF t.ignored > 0
         THEN [counter |-> InternalSet(InternalSet(t.counter - 1, max) - 1, max),
               ignored |-> t.ignored - 1]
         ELSE [counter |-> InternalSet(t.counter - 1, max),
               ignored |-> t.ignored]

SendTokenBlocked(t) == t.counter <= 0

\* CountedEvent.wait() returns once the counter is above 0; it changes nothing
SendTokenWait(t) == t.counter > 0

\* -------------------------------------------------------------- SendQueue
\* Two FIFO lanes; while resend_active only the resend lane is served.
SendQueueNew == [send |-> <<>>, resend |-> <<>>, resend_active |-> FALSE]

SendQueueTypes(q) ==
    {q.send[i].type : i \in 1..Len(q.send)} \cup
    {q.resend[i].type : i \in 1..Len(q.resend)}

\* put: refused (TypeAlreadyInQueue) when the type is pending
SendQueueCanPut(q, item) == item.type = "none" \/ item.type \notin SendQueueTypes(q)

SendQueuePut(q, item, target) ==
    IF target = "resend"
    THEN [q EXCEPT !.resend = Append(@, item)]
    ELSE [q EXCEPT !.send = Append(@, item)]

SendQueueReady(q) ==
    IF q.resend_active THEN q.resend # <<>>
    ELSE q.resend # <<>> \/ q.send # <<>>

SendQueuePeek(q) == IF q.resend # <<>> THEN Head(q.resend) ELSE Head(q.send)

SendQueuePop(q) ==
    IF q.resend # <<>> THEN [q EXCEPT !.resend = Tail(@)]
    ELSE [q EXCEPT !.send = Tail(@)]

SendQueueClear(q) == [q EXCEPT !.send = <<>>, !.resend = <<>>]

\* ------------------------------------------------------------ engine state
VARIABLES
    state,                    \* ProtocolState
    current_linenumber,       \* _current_linenumber
    last_lines,               \* _last_lines (LineHistory)
    clear_to_send,            \* _clear_to_send (SendToken)
    send_queue,               \* _send_queue
    command_queue,            \* _command_queue
    job_queue,                \* _job_queue
    internal_flags,           \* _internal_flags
    last_communication_error, \* _last_communication_error
    resend_ok_timer,          \* _resend_ok_timer: index into timers, or None
    timers,                   \* every threading.Timer created for the resend ok
    send_queue_active,        \* _send_queue_active
    job,                      \* _job
    flavor,                   \* the flavor settings in use
    transport,                \* _transport, as far as the engine reads it
    firmware_errors,          \* firmware_errors
    max_consecutive_timeouts, \* max_consecutive_timeouts
    pc,                       \* position of the send loop thread
    entry,                    \* the send queue entry the send loop holds
    estop,                    \* the M112 handler in progress (holds _send_queue_mutex)
    spin,                     \* threads held inside _continue_sending
    pause,                    \* pause position bookkeeping
    env,                      \* what the environment may still do
    hist                      \* history of what was written and called
vars ==
    <<state, current_linenumber, last_lines, clear_to_send, send_queue,
      command_queue, job_queue, internal_flags, last_communication_error,
      resend_ok_timer, timers, send_queue_active, job, flavor, transport, firmware_errors,
      max_consecutive_timeouts, pc, entry, estop, spin, pause, env, hist>>

\* The engine state as one record; ret carries a handler's return value.
S ==
    [state |-> state, current_linenumber |-> current_linenumber,
     last_lines |-> last_lines, clear_to_send |-> clear_to_send,
     send_queue |-> send_queue, command_queue |-> command_queue,
     job_queue |-> job_queue, internal_flags |-> internal_flags,
     last_communication_error |-> last_communication_error,
     resend_ok_timer |-> resend_ok_timer, timers |-> timers,
     send_queue_active |-> send_queue_active, job |-> job, flavor |-> flavor,
     transport |-> transport, firmware_errors |-> firmware_errors,
     max_consecutive_timeouts |-> max_consecutive_timeouts,
     pc |-> pc, entry |-> entry, estop |-> estop, spin |-> spin,
     pause |-> pause, env |-> env, hist |-> hist, ret |-> FALSE, again |-> FALSE]

\* finished timers are forgotten (unless called more than once)
RECURSIVE TrimTimers(_)
TrimTimers(q) ==
    IF q # <<>> /\ Last(q).st \in {"done", "cancelled"} /\ Last(q).calls <= 1
    THEN TrimTimers(SubSeq(q, 1, Len(q) - 1))
    ELSE q

Commit(r) ==
    /\ state' = r.state
    /\ current_linenumber' = r.current_linenumber
    /\ last_lines' = r.last_lines
    /\ clear_to_send' = r.clear_to_send
    /\ send_queue' = r.send_queue
    /\ command_queue' = r.command_queue
    /\ job_queue' = r.job_queue
    /\ internal_flags' = r.internal_flags
    /\ last_communication_error' = r.last_communication_error
    /\ resend_ok_timer' = r.resend_ok_timer
    /\ timers' = TrimTimers(r.timers)
    /\ send_queue_active' = r.send_queue_active
    /\ job' = r.job
    /\ flavor' = r.flavor
    /\ transport' = r.transport
    /\ firmware_errors' = r.firmware_errors
    /\ max_consecutive_timeouts' = r.max_consecutive_timeouts
    /\ pc' = r.pc
    /\ entry' = r.entry
    /\ estop' = r.estop
    /\ spin' = r.spin
    /\ pause' = r.pause
    /\ env' = r.env
    /\ hist' = r.hist

Ret(s, v) == [s EXCEPT !.ret = v]

\* ProtocolState sets
PROCESSING_STATES ==
    {"STARTING", "PROCESSING", "PAUSING", "CANCELLING", "RESUMING", "FINISHING"}
OPERATIONAL_STATES ==
    {"CONNECTED", "PAUSED"} \cup PROCESSING_STATES

IsOperational(s) == s.state \notin {"DISCONNECTED", "DISCONNECTED_WITH_ERROR"}
IsBusy(s) == s.state \in {"PROCESSING", "PAUSED"}

\* Protocol.job_on_hold (kept with the job record)
JobOnHold(s) == s.job.on_hold

\* _internal_flags["only_from_job"] and ["trigger_events"]
OnlyFromJob(s) ==
    s.state \in PROCESSING_STATES /\ s.job.kind # "none" /\ s.job.exclusive
TriggerEvents(s) == ~OnlyFromJob(s)

\* ----------------------------------------------------------------- history
\* rs: the numbered writes, other than those of the emergency stop, since the
\* last accepted resend request for line k made when current_linenumber was c
\* and the send loop held no line (k = None: no such request yet), recorded
\* until c - k of them were seen.
NoResendTrace == [k |-> None, c |-> None, seq |-> <<>>]

HistNew ==
    [wire |-> <<>>, last_write |-> [src |-> "", at |-> ""],
     rs |-> NoResendTrace,
     credit |-> 0, taken_at |-> "", order |-> <<>>, ran |-> "",
     misordered |-> FALSE, overtaken |-> FALSE,
     token |-> [op |-> "", before |-> SendTokenNew],
     reset |-> [idle |-> "none", drained |-> FALSE],
     bypassed |-> FALSE, spurious |-> FALSE, waited |-> FALSE,
     loop |-> [did |-> "", text |-> ""], unpaused |-> "",
     paused |-> [accepted |-> 0, notified |-> 0, markers |-> 0],
     cancelled |-> [accepted |-> 0, notified |-> 0],
     error |-> [line |-> "", reason |-> ""],
     sent |-> [code |-> "", tool |-> None, s |-> None, current_tool |-> 0],
     replaced |-> FALSE,
     receive |-> [called |-> FALSE, messages |-> <<>>, seen |-> <<>>, ran |-> <<>>],
     history |-> [op |-> "", entry |-> <<>>, before |-> LineHistoryNew],
     normalize |-> [called |-> FALSE, null |-> FALSE, entries |-> <<>>, out |-> <<>>],
     temperature |-> [slot |-> <<"", 0>>, actual |-> None, target |-> None,
                      before |-> TemperatureRecordNew]]

\* transport.write: remember what was written, and in which state
Transmit(s, line, n, src) ==
    LET r == s.hist.rs
        open == n # None /\ src # "estop" /\ r.k # None /\ Len(r.seq) < r.c - r.k
        seq == IF open THEN Append(r.seq, n) ELSE r.seq
    IN  [s EXCEPT !.hist.last_write = [src |-> src, at |-> s.state],
                  !.hist.rs = IF open /\ seq = [i \in 1..(r.c - r.k) |-> r.k + i - 1]
                              THEN NoResendTrace
                              ELSE [r EXCEPT !.seq = seq]]

\* ------------------------------------------------- actual sending via serial
\* flavor.checksum_requiring_commands
ChecksumRequiringCommands == {"M110"}

\* _checksum_enabled without regard to the firmware being identified
ChecksumEnabledWhenPrinting(s) ==
    /\ ~s.transport.message_integrity
    /\ s.flavor.send_checksum # "never"
    /\ \/ s.state = "PROCESSING"
       \/ s.flavor.send_checksum = "always"

ChecksumEnabled(s) ==
    /\ ~s.transport.message_integrity
    /\ s.flavor.send_checksum # "never"
    /\ \/ s.state = "PROCESSING"
       \/ s.flavor.send_checksum = "always"
       \/ ~s.internal_flags.firmware_identified

NeedsChecksum(s, c) ==
    IF ~s.transport.message_integrity
    THEN LET command_requiring_checksum ==
                 c.kind = "cmd" /\ c.code \in ChecksumRequiringCommands
             command_allowing_checksum ==
                 c.kind = "cmd" \/ s.flavor.unknown_with_checksum
         IN  command_requiring_checksum
                 \/ (command_allowing_checksum /\ ChecksumEnabled(s))
    ELSE FALSE

DoSendWithoutChecksum(s, line, src) == Transmit(s, line, None, src)

\* a numbered write that takes the line number it writes as the last one used
DoSendAndRewind(s, line, line_number, src) ==
    Transmit([s EXCEPT !.current_linenumber = line_number + 1], line, line_number, src)

DoSendWithChecksum(s, line, line_number, src) == Transmit(s, line, line_number, src)

AddToLastLines(s, line, line_number) ==
    [s EXCEPT !.last_lines = LineHistoryAppend(@, line, line_number, HistoryMax)]

DoIncrementNoHistory(s, line, src) ==
    LET line_number == s.current_linenumber
        s1 == [s EXCEPT !.current_linenumber = line_number + 1,
                        !.hist.wire = Append(@, <<line, line_number>>)]
    IN  DoSendWithChecksum(s1, line, line_number, src)

\* one critical section under _line_mutex
DoIncrementAndSendWithChecksum(s, line, src) ==
    LET line_number == s.current_linenumber
        s1 == AddToLastLines(s, line, line_number)
        s2 == [s1 EXCEPT !.current_linenumber = line_number + 1,
                         !.hist.wire = Append(@, <<line, line_number>>)]
    IN  DoSendWithChecksum(s2, line, line_number, src)

DoSend(s, c) ==
    IF NeedsChecksum(s, c)
    THEN DoIncrementAndSendWithChecksum(s, LineOf(c), c.src)
    ELSE DoSendWithoutChecksum(s, LineOf(c), c.src)

\* ------------------------------------------------------------ M112 handler
\* The numbered lines of the emergency stop for a printer profile with one
\* extruder and no heated bed: M112, M104 S0.
EmergencyStopLines == << <<"M112", 0>>, <<"M104", 0>> >>

NoEStop == [owner |-> "none", left |-> <<>>]

\* _gcode_M112_queuing up to its first numbered write
GcodeM112Begin(s, thread) ==
    [DoSendWithoutChecksum(s, <<"M112", 0>>, "estop")
        EXCEPT !.estop = [owner |-> thread, left |-> EmergencyStopLines]]

\* the next _do_increment_and_send_with_checksum of the handler
GcodeM112Write(s) ==
    [DoIncrementAndSendWithChecksum(s, Head(s.estop.left), "estop")
        EXCEPT !.estop = IF Len(@.left) = 1 THEN NoEStop ELSE [@ EXCEPT !.left = Tail(@)]]

RECURSIVE GcodeM112Rest(_)
GcodeM112Rest(s) ==
    IF s.estop.owner = "none" THEN s ELSE GcodeM112Rest(GcodeM112Write(s))

\* the whole handler, when no other thread gets in between; the command is
\* eaten: the handler returns (None,)
GcodeM112Queuing(s) == Ret(GcodeM112Rest(GcodeM112Begin(s, "inline")), FALSE)

\* ----------------------------------------------------------------- sending
\* The send_commands calls made since a job was started and still owed a
\* write, in call order, with the markers handed over between them.
OrderItem(c) == IF c.kind = "marker" THEN <<"marker", c.code, 0>>
                ELSE <<"cmd", c.code, c.arg>>

RECURSIVE RemoveFirst(_, _)
RemoveFirst(q, x) ==
    IF q = <<>> THEN q
    ELSE IF Head(q) = x THEN Tail(q)
    ELSE <<Head(q)>> \o RemoveFirst(Tail(q), x)

Settle(s, c) == [s EXCEPT !.hist.order = RemoveFirst(@, OrderItem(c))]

EnqueueForSending(s, c, linenumber, on_sent, resend) ==
    LET item == [c EXCEPT !.linenumber = linenumber, !.on_sent = on_sent]
    IN  IF SendQueueCanPut(s.send_queue, item)
        THEN Ret([s EXCEPT !.send_queue =
                      SendQueuePut(@, item, IF resend THEN "resend" ELSE "send")],
                 TRUE)
        ELSE Ret(s, FALSE)

\* flavor.emergency_commands, as far as they are modelled
EmergencyCommands == {"M112", "M108"}

\* _emergency_force_send; ret tells whether the command goes on to be queued.
\* The dictionaries of capabilities are the sets of names they hold as true.
EmergencyForceSend(s, c) ==
    IF \/ "EMERGENCY_PARSER" \notin s.internal_flags.firmware_capability_support
       \/ "EMERGENCY_PARSER" \notin s.internal_flags.firmware_capabilities
    THEN Ret(s, TRUE)
    ELSE Ret([DoSend(s, [c EXCEPT !.src = "emergency"])
                 EXCEPT !.clear_to_send = SendTokenClear(@, FALSE, TokenMax)], FALSE)

\* _command_phase_queuing for a command that is neither a pausing nor a
\* blocked command
CommandPhaseQueuing(s, c) ==
    IF c.kind = "cmd" /\ c.code \in EmergencyCommands /\ c.code # "M112"
    THEN EmergencyForceSend(s, c)
    ELSE Ret(s, TRUE)

\* _send_command with the queuing phase of the modelled commands
SendCommand(s, c, on_sent) ==
    LET Queued(s1) ==
            IF s1.ret THEN EnqueueForSending(s1, c, None, on_sent, FALSE) ELSE s1
    IN  IF c.kind = "marker" THEN Ret(EnqueueForSending(s, c, None, "none", FALSE), TRUE)
        ELSE IF TriggerEvents(s) /\ c.code = "M112" THEN GcodeM112Queuing(s)
        ELSE IF TriggerEvents(s) THEN Queued(CommandPhaseQueuing(s, c))
        ELSE EnqueueForSending(s, c, None, on_sent, FALSE)

RECURSIVE SendFromCommandQueue(_)
SendFromCommandQueue(s) ==
    IF OnlyFromJob(s) THEN Ret(s, FALSE)
    ELSE IF s.command_queue = <<>> THEN Ret(s, FALSE)
    ELSE LET c == Head(s.command_queue)
             Sent(s1) == IF s1.ret THEN s1 ELSE SendFromCommandQueue(Settle(s1, c))
         IN  Sent(SendCommand([s EXCEPT !.command_queue = Tail(@)], c, c.on_sent))

SendFromJobQueue(s) ==
    IF s.job_queue = <<>> THEN Ret(s, FALSE)
    ELSE LET c == Head(s.job_queue)
             Sent(s1) == IF s1.ret THEN s1 ELSE Settle(s1, c)
         IN  Sent(SendCommand([s EXCEPT !.job_queue = Tail(@)], c, c.on_sent))

\* -------------------------------------------------------------- send token
\* credit: set() calls not yet used up by a wait-then-clear pair of the send
\* loop; never above the true difference, as it stops counting at TokenMax
TokenSet(s) ==
    [s EXCEPT !.clear_to_send = SendTokenSet(@, FALSE, TokenMax),
              !.hist.credit = Min(@ + 1, TokenMax)]

TokenClearCompletely(s) ==
    [s EXCEPT !.clear_to_send = SendTokenClear(@, TRUE, TokenMax)]

\* ------------------------------------------------------------ job handling
NoJob == [kind |-> "none", active |-> FALSE, pos |-> 0, exclusive |-> FALSE,
          parallel |-> FALSE, on_hold |-> FALSE]

\* the commands of the flavor
CommandSetLine(n) == Cmd("M110", n, "none", "internal", "none")
CommandHello == CommandSetLine(0)
CommandGetFirmwareInfo == Cmd("M115", 0, "none", "internal", "none")
CommandFinishMoving == Cmd("M400", 0, "none", "job", "none")
CommandGetPosition == Cmd("M114", 0, "none", "job", "none")
CommandGetTemp == Cmd("M105", 0, "temperature", "internal", "none")

RECURSIVE ContinueSending(_)
RECURSIVE OnJobDone(_)

\* _job.get_next() reaching the end of the file reports the job as done
RECURSIVE SendNextFromJob(_)
SendNextFromJob(s) ==
    IF s.state # "PROCESSING" THEN Ret(s, FALSE)
    ELSE IF JobOnHold(s) THEN Ret(s, FALSE)
    ELSE IF s.job.pos >= JobLen THEN Ret(OnJobDone(s), FALSE)
    ELSE LET c == Cmd("G1", s.job.pos + 1, "none", "file", "none")
             s1 == [s EXCEPT !.job.pos = @ + 1, !.hist.taken_at = s.state]
             Sent(s2) == IF s2.ret THEN s2 ELSE SendNextFromJob(s2)
         IN  Sent(SendCommand(s1, c, "none"))

\* _continue_sending reading the job whatever the state of the protocol is
ContinueSendingAnyState(s) ==
    LET c == Cmd("G1", s.job.pos + 1, "none", "file", "none")
        Take(s1) ==
            IF s1.ret \/ s1.job.kind = "none" \/ ~s1.job.active
                     \/ s1.job.pos >= JobLen
            THEN s1
            ELSE SendCommand([s1 EXCEPT !.job.pos = @ + 1,
                                        !.hist.taken_at = s1.state], c, "none")
        FromCommandQueue(s1) == IF s1.ret THEN s1 ELSE Take(SendFromJobQueue(s1))
    IN  FromCommandQueue(SendFromCommandQueue(s))

\* again: the loop found nothing to send and nothing that lets it return
ContinueSending(s) ==
    LET job_active == s.state \in {"STARTING", "PROCESSING"}
                      /\ s.job.kind # "none" /\ s.job.active
        FromJob(s2, s3) ==
            IF job_active /\ s3.ret THEN s3
            ELSE IF ~job_active THEN Ret(s2, FALSE)
            ELSE IF Ret(s3, FALSE) = Ret(s, FALSE)
            THEN [s3 EXCEPT !.ret = FALSE, !.again = TRUE]
            ELSE ContinueSending(Ret(s3, FALSE))
        FromJobQueue(s2) ==
            IF s2.ret THEN s2 ELSE FromJob(s2, SendNextFromJob(s2))
        FromCommandQueue(s1) ==
            IF s1.ret THEN s1
            ELSE IF JobOnHold(s1) THEN Ret(s1, FALSE)
            ELSE FromJobQueue(SendFromJobQueue(s1))
    IN  FromCommandQueue(SendFromCommandQueue(s))

\* send_commands for one command
SendCommands(s, c, part_of_job, on_sent) ==
    LET s0 == IF s.job.kind = "none" THEN s
              ELSE [s EXCEPT !.hist.order = Append(@, OrderItem(c))]
        item == [c EXCEPT !.on_sent = on_sent]
    IN  IF part_of_job
        THEN Ret([s0 EXCEPT !.job_queue = Append(@, [item EXCEPT !.src = "job"])], TRUE)
        ELSE IF s.state \in PROCESSING_STATES /\ ~s.job.parallel /\ ~JobOnHold(s)
        THEN IF item.type = "none"
                \/ \A i \in 1..Len(s.command_queue) : s.command_queue[i].type # item.type
             THEN Ret([s0 EXCEPT !.command_queue = Append(@, item)], TRUE)
             ELSE Ret(s, FALSE)
        ELSE IF IsOperational(s) \/ c.code \in EmergencyCommands
        THEN LET Sent(s1) == IF s1.ret THEN s1 ELSE Settle(s1, c)
                 \* remembered: a command that is neither part of the job,
                 \* forced nor an emergency is sent directly during a print
                 direct == /\ s.state = "PROCESSING"
                           /\ s.job.kind # "none"
                           /\ ~s.job.parallel
                           /\ c.code \notin EmergencyCommands
             IN  Sent(SendCommand([s0 EXCEPT !.hist.bypassed = @ \/ direct],
                                  c, on_sent))
        ELSE Ret(s, FALSE)

\* send_commands(..., force=True) for one command that is not part of the job
SendCommandsForce(s, c, on_sent) ==
    LET s0 == IF s.job.kind = "none" THEN s
              ELSE [s EXCEPT !.hist.order = Append(@, OrderItem(c))]
        Sent(s1) == IF s1.ret THEN s1 ELSE Settle(s1, c)
    IN  Sent(SendCommand(s0, c, on_sent))

\* the finalize callbacks, the one of the pause switching to PAUSED from
\* whatever state
RunMarkerPausedAnyway(s, callback) ==
    LET s1 == [s EXCEPT
                 !.hist.misordered = @ \/
                     (\E i \in 1..Len(s.hist.order) :
                         /\ s.hist.order[i][1] = "marker"
                         /\ s.hist.order[i][2] # callback
                         /\ \A j \in 1..(i - 1) : s.hist.order[j][1] # "marker"),
                 !.hist.overtaken = @ \/
                     (\E i \in 1..Len(s.hist.order) :
                         /\ s.hist.order[i] = <<"marker", callback, 0>>
                         /\ \A j \in 1..(i - 1) : s.hist.order[j] # s.hist.order[i]
                         /\ \E j \in 1..(i - 1) : s.hist.order[j][1] = "cmd"),
                 !.hist.order = RemoveFirst(@, <<"marker", callback, 0>>),
                 !.hist.ran = callback]
    IN  CASE callback = "started" -> [s1 EXCEPT !.state = "PROCESSING"]
          [] callback = "resumed" ->
                 IF s.state = "RESUMING" THEN [s1 EXCEPT !.state = "PROCESSING"] ELSE s1
          [] callback = "paused" ->
                 [s1 EXCEPT !.state = "PAUSED"]
          [] callback = "cancelled" -> [s1 EXCEPT !.state = "CONNECTED"]
          [] callback = "done" -> [s1 EXCEPT !.state = "CONNECTED"]
          [] OTHER -> s1

\* the finalize callbacks of the send queue markers
RunMarker(s, callback) ==
    LET s1 == [s EXCEPT
                 !.hist.misordered = @ \/
                     (\E i \in 1..Len(s.hist.order) :
                         /\ s.hist.order[i][1] = "marker"
                         /\ s.hist.order[i][2] # callback
                         /\ \A j \in 1..(i - 1) : s.hist.order[j][1] # "marker"),
                 !.hist.overtaken = @ \/
                     (\E i \in 1..Len(s.hist.order) :
                         /\ s.hist.order[i] = <<"marker", callback, 0>>
                         /\ \A j \in 1..(i - 1) : s.hist.order[j] # s.hist.order[i]
                         /\ \E j \in 1..(i - 1) : s.hist.order[j][1] = "cmd"),
                 !.hist.order = RemoveFirst(@, <<"marker", callback, 0>>),
                 !.hist.ran = callback]
    IN  CASE callback = "started" -> [s1 EXCEPT !.state = "PROCESSING"]
          [] callback = "resumed" ->
                 IF s.state = "RESUMING" THEN [s1 EXCEPT !.state = "PROCESSING"] ELSE s1
          [] callback = "paused" ->
                 IF s.state = "PAUSING" THEN [s1 EXCEPT !.state = "PAUSED"]
                 ELSE [s1 EXCEPT !.hist.unpaused = s.state]
          [] callback = "cancelled" -> [s1 EXCEPT !.state = "CONNECTED"]
          [] callback = "done" -> [s1 EXCEPT !.state = "CONNECTED"]
          [] OTHER -> s1

\* send_commands(SendQueueMarker(finalize), part_of_job=True); _continue_sending()
SendMarker(s, callback) ==
    ContinueSending(SendCommands(s, Marker(callback), TRUE, "none"))

OnJobStarted(s) == SendMarker(s, "started")

OnJobResumed(s) == SendMarker(s, "resumed")

OnJobDone(s) == SendMarker([s EXCEPT !.state = "FINISHING"], "done")

\* pause_timer_armed: the timer _pause_position_timer refers to can still
\* fire; pause_failed_calls: timer threads that found their timer not
\* cancelled and have yet to run _pause_preparation_failed
NoPause == [record_pause_data |-> FALSE, pause_position_timer |-> FALSE,
            record_cancel_data |-> FALSE, cancel_position_timer |-> FALSE,
            pause_timer_armed |-> FALSE, pause_failed_calls |-> 0]

\* _pause_preparation_done; the notifications of on_protocol_job_paused and
\* the markers enqueued are counted
PausePreparationDone(s, check_timer) ==
    LET Notified(s1) == [s1 EXCEPT !.hist.paused.notified = @ + 1]
        Enqueued(s1) ==
            IF s1.ret THEN [s1 EXCEPT !.hist.paused.markers = @ + 1] ELSE s1
        Finish(s1) ==
            ContinueSending(Enqueued(
                SendCommands(Notified(s1), Marker("paused"), TRUE, "none")))
    IN  IF s.pause.pause_position_timer
        THEN Finish([s EXCEPT !.pause.pause_position_timer = FALSE,
                              !.pause.pause_timer_armed = FALSE])
        ELSE IF check_timer THEN s
        ELSE Finish(s)

\* _cancel_preparation_done; the notifications of on_protocol_job_cancelled
\* are counted
CancelPreparationDone(s, check_timer) ==
    LET Finish(s1) ==
            SendMarker([s1 EXCEPT !.hist.cancelled.notified = @ + 1], "cancelled")
    IN  IF s.pause.cancel_position_timer
        THEN Finish([s EXCEPT !.pause.cancel_position_timer = FALSE])
        ELSE IF check_timer THEN s
        ELSE Finish(s)

\* the on_move_finish_requested callbacks of pause_processing / cancel_processing
OnSent(s, on_sent) ==
    CASE on_sent = "pause_move_finished" ->
             ContinueSending(SendCommands(
                 [s EXCEPT !.pause.record_pause_data = TRUE,
                           !.pause.pause_position_timer = TRUE,
                           !.pause.pause_timer_armed = TRUE],
                 CommandGetPosition, TRUE, "none"))
      [] on_sent = "cancel_move_finished" ->
             ContinueSending(SendCommands(
                 [s EXCEPT !.pause.record_cancel_data = TRUE,
                           !.pause.cancel_position_timer = TRUE],
                 CommandGetPosition, TRUE, "none"))
      [] OTHER -> s

\* pause_processing; _job.pause() leaves the job registered and active
PauseProcessing(s, log_position) ==
    IF s.job.kind = "none" \/ s.state \notin {"PROCESSING", "STARTING", "RESUMING"}
    THEN s
    ELSE LET s1 == [s EXCEPT !.state = "PAUSING", !.hist.paused.accepted = @ + 1]
         IN  IF log_position
             THEN ContinueSending(
                      SendCommands(s1, CommandFinishMoving, TRUE, "pause_move_finished"))
             ELSE PausePreparationDone(s1, FALSE)

\* cancel_processing; the flavor's heatup is not abortable
CancelProcessing(s, log_position) ==
    IF s.state \notin (PROCESSING_STATES \cup {"PAUSED"}) THEN s
    ELSE IF s.job.kind = "none" THEN s
    ELSE LET s1 == [s EXCEPT !.state = "CANCELLING", !.job.active = FALSE,
                             !.hist.cancelled.accepted = @ + 1]
         IN  IF log_position
             THEN ContinueSending(
                      SendCommands(s1, CommandFinishMoving, TRUE, "cancel_move_finished"))
             ELSE CancelPreparationDone(s1, FALSE)

\* _on_message_position
OnMessagePosition(s) ==
    LET Cancel(s1) ==
            IF s1.pause.record_cancel_data
            THEN CancelPreparationDone([s1 EXCEPT !.pause.record_cancel_data = FALSE], TRUE)
            ELSE s1
    IN  Cancel(IF s.pause.record_pause_data
               THEN PausePreparationDone([s EXCEPT !.pause.record_pause_data = FALSE], TRUE)
               ELSE s)

\* ------------------------------------------------------- receive handlers
\* _on_message_firmware_info for a firmware that names itself; key is the
\* flavor whose identifier matches, "generic" if none does
OnMessageFirmwareInfo(s, key) ==
    IF s.internal_flags.firmware_identified THEN s
    ELSE [s EXCEPT !.flavor.key = IF key = "generic" THEN @ ELSE key,
                   !.internal_flags.firmware_identified = TRUE]

\* _handle_disconnecting, for a printer profile without the script
\* beforePrinterDisconnected; the pollers are not modelled
HandleDisconnecting(s) == [s EXCEPT !.send_queue_active = FALSE]

\* Protocol.disconnect(error=True) with _handle_disconnecting
Disconnect(s) ==
    [s EXCEPT !.state = "DISCONNECTED_WITH_ERROR", !.send_queue_active = FALSE]

\* _trigger_error(text, "firmware"): ERROR, then the disconnect
TriggerError(s) ==
    Disconnect([s EXCEPT !.state = "ERROR", !.hist.error.reason = "firmware"])

\* _tickle
Tickle(s, c) ==
    LET Sent(s1) ==
            IF s1.ret /\ SendTokenBlocked(s1.clear_to_send) THEN TokenSet(s1) ELSE s1
    IN  Sent(SendCommand(s, c, "none"))

\* _on_switching_state_connected coming from CONNECTING
OnSwitchingStateConnected(s) ==
    TokenSet(SendCommand(SendCommand(s, CommandSetLine(0), "none"),
                         CommandGetFirmwareInfo, "none"))

\* threading.Timer.cancel(): no effect once the timer thread is past its check
TimerCancel(s, i) ==
    IF s.timers[i].st = "armed" THEN [s EXCEPT !.timers[i].st = "cancelled"] ELSE s

\* _send_next_from_resend closing the window without switching the send queue
\* back
SendNextFromResendStayActive(s, again) ==
    LET rl0 == s.internal_flags.resend_linenumber
        linenumber == IF again
                      THEN (IF rl0 = None THEN s.current_linenumber ELSE rl0) - 1
                      ELSE rl0
        s1 == [s EXCEPT !.last_communication_error = "none",
                        !.internal_flags.resend_linenumber = linenumber]
    IN  IF ~LineHistoryContains(s1.last_lines, linenumber) THEN Ret(s1, FALSE)
        ELSE LET Enqueued(s2) ==
                     IF linenumber + 1 = s2.current_linenumber
                     THEN [s2 EXCEPT !.internal_flags.resend_requested = None,
                                     !.internal_flags.resend_linenumber = None,
                                     !.internal_flags.resend_count = 0,
                                     !.hist.replaced = FALSE]
                     ELSE [s2 EXCEPT !.internal_flags.resend_linenumber = linenumber + 1]
             IN  Enqueued(EnqueueForSending(
                     s1, ToCommand(LineHistoryGet(s1.last_lines, linenumber)),
                     linenumber, "none", TRUE))

\* _send_next_from_resend
SendNextFromResend(s, again) ==
    LET rl0 == s.internal_flags.resend_linenumber
        linenumber == IF again
                      THEN (IF rl0 = None THEN s.current_linenumber ELSE rl0) - 1
                      ELSE rl0
        s1 == [s EXCEPT !.last_communication_error = "none",
                        !.internal_flags.resend_linenumber = linenumber]
    IN  IF ~LineHistoryContains(s1.last_lines, linenumber) THEN Ret(s1, FALSE)
        ELSE LET Enqueued(s2) ==
                     IF linenumber + 1 = s2.current_linenumber
                     THEN [s2 EXCEPT !.internal_flags.resend_requested = None,
                                     !.internal_flags.resend_linenumber = None,
                                     !.internal_flags.resend_count = 0,
                                     !.send_queue.resend_active = FALSE,
                                     !.hist.replaced = FALSE]
                     ELSE [s2 EXCEPT !.internal_flags.resend_linenumber = linenumber + 1]
             IN  Enqueued(EnqueueForSending(
                     s1, ToCommand(LineHistoryGet(s1.last_lines, linenumber)),
                     linenumber, "none", TRUE))

SendSameFromResend(s) == SendNextFromResend(s, TRUE)

\* _finish_heatup
FinishHeatup(s) ==
    IF s.internal_flags.heating THEN [s EXCEPT !.internal_flags.heating = FALSE]
    ELSE s

\* _on_comm_ok
OnCommOk(s) ==
    IF s.internal_flags.ignore_ok > 0
    THEN [s EXCEPT !.internal_flags.ignore_ok = @ - 1]
    ELSE IF s.state = "CONNECTING"
    THEN OnSwitchingStateConnected([s EXCEPT !.state = "CONNECTED"])
    ELSE LET s1 == IF s.resend_ok_timer # None
                   THEN [TimerCancel(s, s.resend_ok_timer) EXCEPT !.resend_ok_timer = None]
                   ELSE s
             Cleared(s2) ==
                 IF s2.state \notin OPERATIONAL_STATES THEN s2
                 ELSE IF s2.internal_flags.resend_requested # None
                 THEN SendNextFromResend(s2, FALSE)
                 ELSE ContinueSending(s2)
         IN  Cleared(FinishHeatup(
                 [TokenSet(s1) EXCEPT !.internal_flags.long_running_command = FALSE]))

\* _on_message_firmware_capability for a capability that makes the engine
\* send nothing
OnMessageFirmwareCapability(s, cap, enabled) ==
    [s EXCEPT !.internal_flags.firmware_capabilities =
                  IF enabled THEN @ \cup {cap} ELSE @ \ {cap}]

\* _on_comm_ignore_ok
OnCommIgnoreOk(s) == [s EXCEPT !.internal_flags.ignore_ok = @ + 1]

\* _on_comm_wait calling _on_comm_ok in every state
OnCommWaitAnyState(s) == OnCommOk(s)

\* _on_comm_wait
OnCommWait(s) ==
    IF s.state = "PROCESSING" /\ ~JobOnHold(s)
    THEN OnCommOk([s EXCEPT !.hist.waited = TRUE])
    ELSE s

\* flavor.command_busy_protocol_interval(interval), the interval being
\* timeouts["communication_busy"] - 1
CommandBusyProtocolInterval == Cmd("M113", 1, "none", "internal", "none")

\* _on_comm_busy with capabilities["busy_protocol"] left at its default, true;
\* the deadline ok_timeout and the timeout of the transport are not modelled
OnCommBusy(s) ==
    IF ~s.internal_flags.busy_detected
    THEN SendCommands([s EXCEPT !.internal_flags.busy_detected = TRUE],
                      CommandBusyProtocolInterval, FALSE, "none")
    ELSE s

\* _resend_simulate_ok, called on behalf of timer i
ResendSimulateOk(s, i) ==
    OnCommOk([s EXCEPT !.resend_ok_timer = None, !.timers[i].calls = @ + 1])

\* _on_comm_any for a line that is not a timeout
OnCommAny(s, is_ok) ==
    LET s1 == [s EXCEPT !.internal_flags.timeout_consecutive = 0]
        Tickled(s2) ==
            IF s2.resend_ok_timer # None /\ ~is_ok
            THEN ResendSimulateOk(TimerCancel(s2, s2.resend_ok_timer), s2.resend_ok_timer)
            ELSE s2
    IN  Tickled(IF s1.state = "CONNECTING" THEN Tickle(s1, CommandHello) ELSE s1)

\* _last_lines.clear() under _line_mutex
ClearLastLines(s) ==
    [s EXCEPT !.last_lines = LineHistoryClear(@), !.hist.wire = <<>>]

\* _on_comm_resend up to its finally clause, without the check for a request
\* for the line that is to be sent next
OnCommResendBodyUnchecked(s, linenumber) ==
    LET rr == s.internal_flags.resend_requested
        lce == s.last_communication_error
        s1 == [s EXCEPT !.last_communication_error = "none"]
        known == LineHistoryContains(s.last_lines, linenumber)
    IN  IF /\ lce = "linenumber"
           /\ linenumber = rr
           /\ s.internal_flags.resend_count < s.current_linenumber - linenumber - 1
        THEN [s1 EXCEPT !.internal_flags.resend_count = @ + 1]
        ELSE IF ~known /\ ~IsBusy(s1) THEN s1
        ELSE LET s2 == IF known THEN s1 ELSE CancelProcessing(s1, TRUE)
             IN  [s2 EXCEPT
                    !.internal_flags.resend_requested = linenumber,
                    !.internal_flags.resend_linenumber = linenumber,
                    !.internal_flags.resend_count = 0,
                    !.send_queue.resend_active = TRUE,
                    !.hist.replaced = rr # None,
                    !.hist.rs = IF /\ known
                                   /\ linenumber < s.current_linenumber
                                   /\ s.pc \in {"wait", "get"}
                                THEN [k |-> linenumber, c |-> s.current_linenumber,
                                      seq |-> <<>>]
                                ELSE NoResendTrace]

\* _on_comm_resend up to its finally clause
OnCommResendBody(s, linenumber) ==
    LET rr == s.internal_flags.resend_requested
        lce == s.last_communication_error
        s1 == [s EXCEPT !.last_communication_error = "none"]
        known == LineHistoryContains(s.last_lines, linenumber)
    IN  IF rr = None /\ linenumber = s.current_linenumber
        THEN [s EXCEPT !.hist.spurious = TRUE]
        ELSE IF /\ lce = "linenumber"
                /\ linenumber = rr
                /\ s.internal_flags.resend_count < s.current_linenumber - linenumber - 1
        THEN [s1 EXCEPT !.internal_flags.resend_count = @ + 1]
        ELSE IF ~known /\ ~IsBusy(s1) THEN s1
        ELSE LET s2 == IF known THEN s1 ELSE CancelProcessing(s1, TRUE)
             IN  [s2 EXCEPT
                    !.internal_flags.resend_requested = linenumber,
                    !.internal_flags.resend_linenumber = linenumber,
                    !.internal_flags.resend_count = 0,
                    !.send_queue.resend_active = TRUE,
                    !.hist.replaced = rr # None,
                    !.hist.rs = IF /\ known
                                   /\ linenumber < s.current_linenumber
                                   /\ s.pc \in {"wait", "get"}
                                THEN [k |-> linenumber, c |-> s.current_linenumber,
                                      seq |-> <<>>]
                                ELSE NoResendTrace]

\* _on_comm_resend
OnCommResend(s, linenumber) ==
    LET Finally(s1) ==
            CASE s1.flavor.trigger_ok_after_resend = "always" -> OnCommOk(s1)
              [] s1.flavor.trigger_ok_after_resend = "detect" ->
                     [s1 EXCEPT !.timers = Append(@, [st |-> "armed", calls |-> 0]),
                                !.resend_ok_timer = Len(s1.timers) + 1]
              [] OTHER -> s1
    IN  Finally(OnCommResendBody(s, linenumber))

\* _on_comm_timeout giving up above a ceiling of 0 as well
OnCommTimeoutZeroCeiling(s) ==
    LET consecutive_max ==
            IF s.internal_flags.long_running_command
            THEN s.max_consecutive_timeouts.long
            ELSE IF s.state \in {"PROCESSING", "PAUSING", "CANCELLING"}
            THEN s.max_consecutive_timeouts.printing
            ELSE s.max_consecutive_timeouts.idle
        s1 == [s EXCEPT !.internal_flags.timeout_consecutive = @ + 1]
        Sent(s2) == IF s2.ret THEN TokenSet(s2) ELSE s2
    IN  IF consecutive_max < s1.internal_flags.timeout_consecutive
        THEN Disconnect(s1)
        ELSE IF s1.internal_flags.resend_requested # None
        THEN Sent(SendSameFromResend(s1))
        ELSE IF s1.internal_flags.heating THEN FinishHeatup(s1)
        ELSE IF s1.internal_flags.long_running_command THEN s1
        ELSE IF s1.state \in {"PROCESSING", "PAUSED"}
        THEN Sent(SendCommand(s1, CommandGetTemp, "none"))
        ELSE IF SendTokenBlocked(s1.clear_to_send) THEN TokenSet(s1)
        ELSE s1

\* _on_comm_timeout
OnCommTimeout(s) ==
    LET consecutive_max ==
            IF s.internal_flags.long_running_command
            THEN s.max_consecutive_timeouts.long
            ELSE IF s.state \in {"PROCESSING", "PAUSING", "CANCELLING"}
            THEN s.max_consecutive_timeouts.printing
            ELSE s.max_consecutive_timeouts.idle
        s1 == [s EXCEPT !.internal_flags.timeout_consecutive = @ + 1]
        Sent(s2) == IF s2.ret THEN TokenSet(s2) ELSE s2
    IN  IF 0 < consecutive_max /\ consecutive_max < s1.internal_flags.timeout_consecutive
        THEN Disconnect(s1)
        ELSE IF s1.internal_flags.resend_requested # None
        THEN Sent(SendSameFromResend(s1))
        ELSE IF s1.internal_flags.heating THEN FinishHeatup(s1)
        ELSE IF s1.internal_flags.long_running_command THEN s1
        ELSE IF s1.state \in {"PROCESSING", "PAUSED"}
        THEN Sent(SendCommand(s1, CommandGetTemp, "none"))
        ELSE IF SendTokenBlocked(s1.clear_to_send) THEN TokenSet(s1)
        ELSE s1

\* an external reset that leaves the queues as they are
OnExternalResetKeepQueues(s) ==
    LET s2 == [ClearLastLines([TokenClearCompletely(s) EXCEPT !.current_linenumber = 0])
                  EXCEPT !.flavor.key = "generic"]
    IN  SendCommands(SendCommands(s2, CommandHello, FALSE, "none"),
                     CommandSetLine(0), FALSE, "none")

\* _on_external_reset
OnExternalReset(s) ==
    LET s1 == [TokenClearCompletely(s) EXCEPT !.command_queue = <<>>,
                                              !.send_queue = SendQueueClear(@),
                                              !.hist.order = <<>>]
        s2 == [ClearLastLines([s1 EXCEPT !.current_linenumber = 0])
                  EXCEPT !.flavor.key = "generic"]
    IN  SendCommands(SendCommands(s2, CommandHello, FALSE, "none"),
                     CommandSetLine(0), FALSE, "none")

\* _on_comm_start; leaving job_put_on_hold() calls _job_on_hold_cleared
OnCommStart(s) ==
    IF s.state = "CONNECTING"
    THEN OnSwitchingStateConnected([s EXCEPT !.state = "CONNECTED"])
    ELSE IF s.state \in OPERATIONAL_STATES
    THEN LET s1 == [s EXCEPT
                      !.job.on_hold = TRUE,
                      !.hist.reset =
                          [idle |-> IF s.state = "CONNECTED" THEN "true" ELSE "false",
                           drained |-> s.send_queue.send # <<>>
                                       \/ s.command_queue # <<>>]]
             s2 == IF s.state = "CONNECTED" THEN OnExternalReset(s1)
                   ELSE CancelProcessing(OnExternalReset(s1), FALSE)
         IN  ContinueSending([s2 EXCEPT !.job.on_hold = FALSE])
    ELSE s

\* _gcode_M110_sending
GcodeM110Sending(s, c) ==
    [ClearLastLines([s EXCEPT !.current_linenumber = c.arg])
        EXCEPT !.internal_flags.resend_linenumber = None]

\* _gcode_M109_sent
GcodeM109Sent(s) ==
    [s EXCEPT !.internal_flags.long_running_command = TRUE,
              !.internal_flags.heating = TRUE]

\* ---------------------------------------------------------------- send loop
\* the codes a plugin's hook for the sending phase answers with no command
SuppressedWhenSending == {"M117"}

\* _send_loop: the entry is not to be written
SendLoopSkips(s) ==
    LET c == s.entry
    IN  /\ c.linenumber = None
        /\ \/ TriggerEvents(s) /\ c.code \in SuppressedWhenSending
           \/ c.code = ""
           \/ c.kind = "at"

\* _send_loop for such an entry: _continue_sending(), then the next get()
SendLoopSkip(s) ==
    [ContinueSending(Settle(s, s.entry))
        EXCEPT !.hist.loop = [did |-> "skip", text |-> s.entry.code],
               !.pc = "get", !.entry = NoEntry]

\* _send_loop from _do_send to the end of the iteration, clearing the token
\* after every write
SendLoopWriteAlwaysClear(s) ==
    LET c == s.entry
        s1 == IF c.linenumber # None
              THEN DoSendWithChecksum(s, LineOf(c), c.linenumber, c.src)
              ELSE Settle(DoSend(s, c), c)
        s2 == OnSent(s1, c.on_sent)
        s3 == IF TriggerEvents(s2) /\ c.code = "M109" THEN GcodeM109Sent(s2) ELSE s2
    IN  [s3 EXCEPT !.clear_to_send = SendTokenClear(@, FALSE, TokenMax),
                   !.hist.credit = @ - 1,
                   !.pc = "wait", !.entry = NoEntry]

\* _send_loop from _do_send to the end of the iteration, for a command entry
SendLoopWrite(s) ==
    LET c == s.entry
        s1 == IF c.linenumber # None
              THEN DoSendWithChecksum(s, LineOf(c), c.linenumber, c.src)
              ELSE Settle(DoSend(s, c), c)
        s2 == OnSent(s1, c.on_sent)
        s3 == IF TriggerEvents(s2) /\ c.code = "M109" THEN GcodeM109Sent(s2) ELSE s2
        use_up_clear == c.kind = "cmd" \/ s.flavor.unknown_requires_ack
    IN  IF use_up_clear
        THEN [s3 EXCEPT !.clear_to_send = SendTokenClear(@, FALSE, TokenMax),
                        !.hist.credit = @ - 1,
                        !.hist.loop = IF c.kind = "cmd" THEN @
                                      ELSE [did |-> "clear", text |-> c.code],
                        !.pc = "wait", !.entry = NoEntry]
        ELSE [ContinueSending(s3)
                 EXCEPT !.hist.loop = [did |-> "continue", text |-> c.code],
                        !.pc = "wait", !.entry = NoEntry]

\* --------------------------------------------------------------------- Init
\* the flavor in use: the generic one with the overrides of send_checksum and
\* trigger_ok_after_resend
Flavor(trigger) ==
    [key |-> "generic", send_checksum |-> "printing",
     trigger_ok_after_resend |-> trigger,
     unknown_requires_ack |-> FALSE, unknown_with_checksum |-> FALSE]

\* bounds on the environment
\* disturbances in one run: resend requests, timeouts, resets of the printer,
\* line number resets and emergency stops by the client
MaxFaults == 2
\* jobs started in one run
MaxJobs == 1
\* times the client pauses the job
MaxPauses == 1
\* times the client cancels the job
MaxCancels == 1
\* oks the firmware may send ahead of the lines it was sent
MaxAhead == 2

\* disturbances in one run with the resend-ok timer in use
MaxFaultsDetect == 1

\* commands the client sends while a job may run
MaxSendsJob == 1

\* max_consecutive_timeouts as configured by default
DefaultCeilings ==
    [idle |-> MaxConsecutiveIdle, printing |-> MaxConsecutivePrinting,
     long |-> MaxConsecutiveLong]

\* _internal_flags as __init__ sets them
InternalFlagsNew ==
    [resend_requested |-> None, resend_linenumber |-> None,
     resend_count |-> None, timeout_consecutive |-> 0,
     long_running_command |-> FALSE,
     heating |-> FALSE,
     ignore_ok |-> 0, busy_detected |-> FALSE,
     current_tool |-> 0, former_tool |-> 0,
     firmware_capabilities |-> {}, firmware_capability_support |-> {},
     temperatures |-> TemperatureRecordNew,
     firmware_identified |-> FALSE]

\* the engine as constructed, with the flavor drawn from flavors, the
\* transport's message_integrity from integrity and
\* max_consecutive_timeouts from ceilings, in an
\* environment that causes up to faults disturbances and sends up to sends
\* commands
ConstructedFor(flavors, integrity, faults, sends, ceilings) ==
    /\ state = "DISCONNECTED"
    /\ current_linenumber = 1
    /\ last_lines = LineHistoryNew
    /\ clear_to_send = SendTokenNew
    /\ send_queue = SendQueueNew
    /\ command_queue = <<>>
    /\ job_queue = <<>>
    /\ internal_flags = InternalFlagsNew
    /\ last_communication_error = "none"
    /\ resend_ok_timer = None
    /\ timers = <<>>
    /\ send_queue_active = FALSE
    /\ job = NoJob
    /\ flavor \in flavors
    /\ transport \in {[message_integrity |-> m] : m \in integrity}
    /\ firmware_errors = "disconnect"
    /\ max_consecutive_timeouts \in ceilings
    /\ pc = "idle"
    /\ entry = NoEntry
    /\ estop = NoEStop
    /\ spin = FALSE
    /\ pause = NoPause
    /\ env = [jobs |-> MaxJobs, pauses |-> MaxPauses, cancels |-> MaxCancels,
              faults |-> faults, sends |-> sends]
    /\ hist = HistNew

\* ... over a transport without message integrity, with the flavor's
\* trigger_ok_after_resend drawn from triggers
ConstructedWith(triggers, faults, sends, ceilings) ==
    ConstructedFor({Flavor(t) : t \in triggers}, {FALSE}, faults, sends, ceilings)

\* ... with the default configuration of the timeouts
Constructed(triggers, faults, sends) ==
    ConstructedWith(triggers, faults, sends, {DefaultCeilings})

\* ------------------------------------------------------------------ actions
\* _send_queue_mutex is free
MutexFree == estop.owner = "none"

\* the receive thread is between two lines
RecvReady == IsOperational(S) /\ ~spin /\ MutexFree

\* a handler of the receive thread ends, or stays inside _continue_sending
RecvDone(r) == Commit([r EXCEPT !.spin = r.again])

\* a handler of another thread ends; it cannot be followed while it stays
\* inside _continue_sending
Done(r) == ~r.again /\ Commit(r)

\* connect(): the send loop starts, the hello is tickled.  One connection is
\* followed: there is no connect() after a disconnect().
Connect ==
    /\ state = "DISCONNECTED"
    /\ pc = "idle"
    /\ Commit(Tickle([S EXCEPT !.send_queue_active = TRUE, !.pc = "wait",
                               !.state = "CONNECTING"], CommandHello))

\* the hello is tickled again by every line received while CONNECTING
RecvRoom == state # "CONNECTING" \/ Len(send_queue.send) < MaxQueue

RecvOk ==
    /\ RecvReady
    /\ RecvRoom
    /\ clear_to_send.counter < MaxAhead
    /\ RecvDone(OnCommOk(OnCommAny(S, TRUE)))

\* one of the disturbances the environment may still cause is used up
Fault(s) == [s EXCEPT !.env.faults = @ - 1]

\* "Resend: n"
RecvResendFor(n) ==
    /\ RecvReady
    /\ RecvRoom
    /\ env.faults > 0
    /\ RecvDone(OnCommResend(OnCommAny(Fault(S), FALSE), n))

RecvResend == \E n \in 0..MaxLine : RecvResendFor(n)

RecvTimeout ==
    /\ RecvReady
    /\ env.faults > 0
    /\ RecvDone(OnCommTimeout(Fault(S)))

RecvStart ==
    /\ RecvReady
    /\ env.faults > 0
    /\ RecvDone(OnCommStart(OnCommAny(Fault(S), FALSE)))

\* any other line: only _on_comm_any acts on it
RecvOther ==
    /\ RecvReady
    /\ RecvRoom
    /\ RecvDone(OnCommAny(S, FALSE))

\* the timer thread of timer i finds it not cancelled
TimerExpire ==
    \E i \in 1..Len(timers) :
        /\ timers[i].st = "armed"
        /\ timers' = [timers EXCEPT ![i].st = "firing"]
        /\ UNCHANGED <<state, current_linenumber, last_lines, clear_to_send,
                       send_queue, command_queue, job_queue, internal_flags,
                       last_communication_error, resend_ok_timer,
                       send_queue_active, job, flavor, transport, firmware_errors,
                   max_consecutive_timeouts,
                       pc, entry, estop, spin, pause, env, hist>>

\* ... and calls _resend_simulate_ok
TimerRun ==
    \E i \in 1..Len(timers) :
        /\ timers[i].st = "firing"
        /\ MutexFree
        /\ Done(ResendSimulateOk([S EXCEPT !.timers[i].st = "done"], i))

\* send_commands would hand the command to _send_commands directly
DirectPath(s) ==
    /\ IsOperational(s)
    /\ ~(s.state \in PROCESSING_STATES /\ ~s.job.parallel /\ ~JobOnHold(s))

ClientReady ==
    /\ IsOperational(S)
    /\ MutexFree
    /\ current_linenumber < MaxLine
    /\ Len(send_queue.send) < MaxQueue
    /\ Len(command_queue) < MaxQueue

\* send_commands("G0 ...")
ClientSend ==
    /\ ClientReady
    /\ env.sends > 0
    /\ LET c == Cmd("G0", 0, "none", "user", "none")
       IN  Commit(SendCommands([S EXCEPT !.env.sends = @ - 1], c, FALSE, "none"))

\* the line numbers a client resets to
SetLineTargets == {2}

\* send_commands("M110 N<k>")
ClientSetLine ==
    /\ ClientReady
    /\ \E k \in SetLineTargets :
          LET c == Cmd("M110", k, "none", "user", "none")
          IN  env.faults > 0 /\ Commit(SendCommands(Fault(S), c, FALSE, "none"))

\* send_commands("M112") on the direct path: the queuing handler starts
ClientEStop ==
    /\ ClientReady
    /\ DirectPath(S)
    /\ TriggerEvents(S)
    /\ env.faults > 0
    /\ Commit(GcodeM112Begin(Fault(S), "client"))

\* the next numbered write of the M112 handler
EStopStep ==
    /\ estop.owner # "none"
    /\ Commit(GcodeM112Write(S))

\* _clear_to_send.wait() returns
SendLoopWait ==
    /\ pc = "wait"
    /\ SendTokenWait(clear_to_send)
    /\ pc' = IF send_queue_active THEN "get" ELSE "done"
    /\ UNCHANGED <<state, current_linenumber, last_lines, clear_to_send,
                   send_queue, command_queue, job_queue, internal_flags,
                   last_communication_error, resend_ok_timer, timers,
                   send_queue_active, job, flavor, transport, firmware_errors,
                   max_consecutive_timeouts,
                   entry, estop, spin, pause, env, hist>>

\* _send_queue.get() returns an entry
SendLoopGet ==
    /\ pc = "get"
    /\ SendQueueReady(send_queue)
    /\ IF send_queue_active
       THEN Commit([S EXCEPT !.entry = SendQueuePeek(send_queue),
                             !.send_queue = SendQueuePop(@), !.pc = "process"])
       ELSE Commit([S EXCEPT !.send_queue = SendQueuePop(@), !.pc = "done"])

\* a marker runs; a first-time command passes the sending phase
SendLoopProcess ==
    /\ pc = "process"
    /\ IF entry.kind = "marker"
       THEN /\ MutexFree
            /\ Done([ContinueSending(RunMarker(S, entry.code))
                        EXCEPT !.pc = "get", !.entry = NoEntry])
       ELSE IF SendLoopSkips(S)
       THEN /\ MutexFree
            /\ Done(SendLoopSkip(S))
       ELSE IF entry.linenumber = None /\ entry.code = "M110" /\ TriggerEvents(S)
       THEN Commit([GcodeM110Sending(S, entry) EXCEPT !.pc = "send"])
       ELSE /\ entry.on_sent = "none" \/ MutexFree
            /\ Done(SendLoopWrite(S))

\* the command is written, its callbacks run, one clear is used up
SendLoopSend ==
    /\ pc = "send"
    /\ entry.on_sent = "none" \/ MutexFree
    /\ Done(SendLoopWrite(S))

Next ==
    \/ Connect
    \/ RecvOk
    \/ RecvResend
    \/ RecvTimeout
    \/ RecvStart
    \/ RecvOther
    \/ ClientSend
    \/ ClientSetLine
    \/ ClientEStop
    \/ EStopStep
    \/ SendLoopWait
    \/ SendLoopGet
    \/ SendLoopProcess
    \/ SendLoopSend

Init == Constructed({"always", "never"}, MaxFaults, MaxLine)

\* the protocol without a job, for firmware that needs no ok simulated
\* after a resend request or gets it at once
Spec == Init /\ [][Next]_vars

InitDetect == Constructed({"detect"}, MaxFaultsDetect, MaxLine)

NextDetect ==
    \/ Next
    \/ TimerExpire
    \/ TimerRun

\* the same with the resend-ok timer in use
SpecDetect == InitDetect /\ [][NextDetect]_vars

\* ------------------------------------------------------------------- jobs
\* the kinds of job: neither exclusive nor parallel, exclusive, parallel
JobKinds == {"plain", "exclusive", "parallel"}

\* _on_switched_state_starting
OnSwitchedStateStarting(s) == SendCommands(s, CommandSetLine(0), FALSE, "none")

\* Protocol.process(job), called by the client while the send loop is idle:
\* the job is registered, the state becomes STARTING and the job reports that
\* it started
StartJob ==
    /\ state = "CONNECTED"
    /\ MutexFree
    /\ send_queue.send = <<>>
    /\ pc = "wait"
    /\ env.jobs > 0
    /\ \E kind \in JobKinds :
          Done(OnJobStarted(OnSwitchedStateStarting(
              [S EXCEPT !.env.jobs = @ - 1,
                        !.state = "STARTING",
                        !.job = [kind |-> kind, active |-> TRUE, pos |-> 0,
                                 exclusive |-> kind = "exclusive",
                                 parallel |-> kind = "parallel",
                                 on_hold |-> FALSE]])))

\* pause_processing(log_position=...)
ClientPause ==
    /\ job.kind # "none"
    /\ state \in {"PROCESSING", "STARTING", "RESUMING"}
    /\ MutexFree
    /\ env.pauses > 0
    /\ \E log_position \in BOOLEAN :
          Done(PauseProcessing([S EXCEPT !.env.pauses = @ - 1], log_position))

\* Protocol.resume_processing(): the state becomes RESUMING and the job
\* reports that it resumed
ClientResume ==
    /\ job.kind # "none"
    /\ state = "PAUSED"
    /\ MutexFree
    /\ Done(OnJobResumed([S EXCEPT !.state = "RESUMING"]))

\* cancel_processing(log_position=...)
ClientCancel ==
    /\ job.kind # "none"
    /\ state \in PROCESSING_STATES \cup {"PAUSED"}
    /\ MutexFree
    /\ env.cancels > 0
    /\ \E log_position \in BOOLEAN :
          Done(CancelProcessing([S EXCEPT !.env.cancels = @ - 1], log_position))

\* a position report is received while one is waited for
RecvPosition ==
    /\ RecvReady
    /\ pause.record_pause_data \/ pause.record_cancel_data
    /\ RecvDone(OnMessagePosition(OnCommAny(S, FALSE)))

\* _pause_preparation_failed: the position was not reported in time
PausePositionTimeout ==
    /\ pause.pause_position_timer
    /\ MutexFree
    /\ Done(PausePreparationDone(S, TRUE))

\* _cancel_preparation_failed
CancelPositionTimeout ==
    /\ pause.cancel_position_timer
    /\ MutexFree
    /\ Done(CancelPreparationDone(S, TRUE))

\* the receive thread goes round the loop of _continue_sending once more
RecvSpin ==
    /\ spin
    /\ MutexFree
    /\ RecvDone(ContinueSending(S))

InitJob == Constructed({"never"}, 0, MaxSendsJob)

NextJob ==
    \/ Connect
    \/ RecvOk
    \/ ClientSend
    \/ SendLoopWait
    \/ SendLoopGet
    \/ SendLoopProcess
    \/ SendLoopSend
    \/ StartJob
    \/ ClientPause
    \/ ClientResume
    \/ ClientCancel
    \/ RecvPosition
    \/ PausePositionTimeout
    \/ CancelPositionTimeout
    \/ RecvSpin

\* one job from start to end, paused, resumed and cancelled by the client,
\* with a printer that answers every line
SpecJob == InitJob /\ [][NextJob]_vars

\* ------------------------------------------------- emergency stop and jobs
\* flavor.command_emergency_stop() as a client gives it to send_commands
CommandEmergencyStop == Cmd("M112", 0, "none", "user", "none")

\* the ways a client calls send_commands: plainly, with part_of_job=True,
\* with force=True
SendModes == {"plain", "part_of_job", "force"}

\* send_commands("M112", ...); the queuing handler, where it runs, is not
\* interleaved with other threads here
ClientEStopJob ==
    /\ ClientReady
    /\ env.faults > 0
    /\ \E mode \in SendModes :
          Commit(IF mode = "force"
                 THEN SendCommandsForce(Fault(S), CommandEmergencyStop, "none")
                 ELSE SendCommands(Fault(S), CommandEmergencyStop,
                                   mode = "part_of_job", "none"))

\* emergency stops a client triggers while a job may run
MaxEStops == 1

InitEStop == Constructed({"never"}, MaxEStops, MaxSendsJob)

NextEStop ==
    \/ Connect
    \/ RecvOk
    \/ SendLoopWait
    \/ SendLoopGet
    \/ SendLoopProcess
    \/ SendLoopSend
    \/ StartJob
    \/ ClientPause
    \/ ClientResume
    \/ RecvPosition
    \/ PausePositionTimeout
    \/ RecvSpin
    \/ ClientEStopJob

\* a job during which the client may trigger an emergency stop
SpecEStop == InitEStop /\ [][NextEStop]_vars

\* ------------------------------------------------------ reset of the printer
\* the flavors a firmware may be identified as
FlavorKeys == {"generic", "marlin"}

\* the answer to M115 is received
RecvFirmwareInfo ==
    /\ RecvReady
    /\ ~internal_flags.firmware_identified
    /\ \E key \in FlavorKeys : RecvDone(OnMessageFirmwareInfo(OnCommAny(S, FALSE), key))

\* resets of the printer while a job may run
MaxResets == 1

InitReset == Constructed({"never"}, MaxResets, MaxSendsJob)

NextReset ==
    \/ Connect
    \/ RecvOk
    \/ RecvStart
    \/ RecvFirmwareInfo
    \/ ClientSend
    \/ StartJob
    \/ ClientPause
    \/ RecvSpin
    \/ SendLoopWait
    \/ SendLoopGet
    \/ SendLoopProcess
    \/ SendLoopSend

\* a job on a printer that may reset itself
SpecReset == InitReset /\ [][NextReset]_vars

\* ------------------------------------------------- resend requests and jobs
\* resend requests and timeouts while a job may run
MaxResendsJob == 2

InitResendJob == Constructed({"never", "always"}, MaxResendsJob, 0)

NextResendJob ==
    \/ Connect
    \/ RecvOk
    \/ RecvResend
    \/ RecvTimeout
    \/ StartJob
    \/ RecvSpin
    \/ SendLoopWait
    \/ SendLoopGet
    \/ SendLoopProcess
    \/ SendLoopSend

\* a job printed on a printer that asks for lines again and stops answering
\* for a while
SpecResendJob == InitResendJob /\ [][NextResendJob]_vars

\* ----------------------------------------------------- timeouts and heatup
\* send_commands("M109 S...")
CommandHeatup == Cmd("M109", 0, "none", "user", "none")

ClientHeatup ==
    /\ ClientReady
    /\ env.sends > 0
    /\ Commit(SendCommands([S EXCEPT !.env.sends = @ - 1], CommandHeatup, FALSE, "none"))

\* the values a ceiling of max_consecutive_timeouts is configured with
CeilingValues == {0, 1}

\* the configurations with one ceiling above 0, or all three: every category
\* is found with and without a ceiling, and any two with different ceilings
Ceilings ==
    {c \in [{"idle", "printing", "long"} -> CeilingValues] :
        (c.idle + c.printing + c.long) % 2 = 1}

\* timeouts in one run
MaxTimeouts == 2

\* blocking heatups a client asks for
MaxHeatups == 1

InitTimeout == ConstructedWith({"never"}, MaxTimeouts, MaxHeatups, Ceilings)

NextTimeout ==
    \/ Connect
    \/ RecvOk
    \/ RecvTimeout
    \/ RecvOther
    \/ ClientHeatup
    \/ StartJob
    \/ ClientPause
    \/ RecvSpin
    \/ SendLoopWait
    \/ SendLoopGet
    \/ SendLoopProcess
    \/ SendLoopSend

\* a printer that stops answering for a while, idle, printing or heating up,
\* under every configuration of the ceilings
SpecTimeout == InitTimeout /\ [][NextTimeout]_vars

\* ----------------------------------------------- the line history on its own
\* LineHistory(max=HistoryCapacity)
HistoryCapacity == 2
\* the highest line number appended
MaxHistoryNumber == 2

HistoryLines == {<<"G0", 0>>, <<"G1", 0>>}
HistoryNumbers == (1..MaxHistoryNumber) \cup {None}

\* One operation of a line history, under its mutex; the operation, the
\* entry appended and the history it was applied to are remembered.
HistoryOp(op, e, h) ==
    /\ last_lines' = h
    /\ hist' = [hist EXCEPT !.history = [op |-> op, entry |-> e, before |-> last_lines]]
    /\ UNCHANGED <<state, current_linenumber, clear_to_send, send_queue,
                   command_queue, job_queue, internal_flags,
                   last_communication_error, resend_ok_timer, timers,
                   send_queue_active, job, flavor, transport, firmware_errors,
                   max_consecutive_timeouts,
                   pc, entry, estop, spin, pause, env>>

\* append(line, line_number)
HistoryOpAppend ==
    \E line \in HistoryLines, n \in HistoryNumbers :
        HistoryOp("append", <<line, n>>,
                  LineHistoryAppend(last_lines, line, n, HistoryCapacity))

\* clear()
HistoryOpClear == HistoryOp("clear", <<>>, LineHistoryClear(last_lines))

NextHistory ==
    \/ HistoryOpAppend
    \/ HistoryOpClear

\* a line history of small capacity under every sequence of appends, with
\* and without line number, and clears
SpecHistory == Init /\ [][NextHistory]_vars

\* ---------------------------------------- the temperature record on its own
\* the temperatures reported or set; an argument left out is None
TemperatureValues == {0, 1}
TemperatureArgs == TemperatureValues \cup {None}

\* the slots of the record
TemperatureSlots == {<<"tool", i>> : i \in ToolIds} \cup {<<"bed", 0>>, <<"chamber", 0>>}

\* what the record holds for a slot, NoSlot for a tool without entry
SlotOf(r, slot) ==
    CASE slot[1] = "tool" -> r.tools[slot[2]]
      [] slot[1] = "bed" -> r.bed
      [] OTHER -> r.chamber

\* ... as as_dict reports its actual and target
PairOf(r, slot) == IF SlotOf(r, slot) = NoSlot THEN <<None, None>> ELSE SlotOf(r, slot)

\* One update of the record; the slot, the arguments and the record it was
\* applied to are remembered.
TemperatureOp(slot, actual, target, r) ==
    /\ internal_flags' = [internal_flags EXCEPT !.temperatures = r]
    /\ hist' = [hist EXCEPT !.temperature =
                    [slot |-> slot, actual |-> actual, target |-> target,
                     before |-> internal_flags.temperatures]]
    /\ UNCHANGED <<state, current_linenumber, last_lines, clear_to_send,
                   send_queue, command_queue, job_queue,
                   last_communication_error, resend_ok_timer, timers,
                   send_queue_active, job, flavor, transport, firmware_errors,
                   max_consecutive_timeouts,
                   pc, entry, estop, spin, pause, env>>

\* set_tool(tool, actual=..., target=...)
TemperatureOpTool ==
    \E tool \in ToolIds, actual \in TemperatureArgs, target \in TemperatureArgs :
        TemperatureOp(<<"tool", tool>>, actual, target,
                      SetTool(internal_flags.temperatures, tool, actual, target))

\* set_bed(actual=..., target=...)
TemperatureOpBed ==
    \E actual \in TemperatureArgs, target \in TemperatureArgs :
        TemperatureOp(<<"bed", 0>>, actual, target,
                      SetBed(internal_flags.temperatures, actual, target))

\* set_chamber(actual=..., target=...)
TemperatureOpChamber ==
    \E actual \in TemperatureArgs, target \in TemperatureArgs :
        TemperatureOp(<<"chamber", 0>>, actual, target,
                      SetChamber(internal_flags.temperatures, actual, target))

\* the engine as constructed, left alone
InitIdle == Constructed({"never"}, 0, 0)

NextTemperature ==
    \/ TemperatureOpTool
    \/ TemperatureOpBed
    \/ TemperatureOpChamber

\* a temperature record under every sequence of full, partial and empty
\* updates of its slots
SpecTemperature == InitIdle /\ [][NextTemperature]_vars

\* ------------------------------------------------ handler results on their own
\* the longest tuple a handler returns
MaxTupleLen == 4
\* the longest list a handler returns
MaxEntries == 2

\* the command the handlers are asked about
HandledCommand == Cmd("M105", 0, "temperature", "user", "none")

HandlerLines == {"M105", "M110"}
HandlerTypes == {"temperature", "lineno_reset"}

HandlerEntries ==
    {HandlerEntry("none", 0, NullLine, "none"), HandlerEntry("other", 0, NullLine, "none"),
     HandlerEntry("tuple", 0, NullLine, "none")}
    \cup {HandlerEntry(k, 0, l, "none") : k \in {"str", "command"}, l \in HandlerLines}
    \cup {HandlerEntry("tuple", n, l, ty) :
              n \in 1..MaxTupleLen, l \in HandlerLines \cup {NullLine}, ty \in HandlerTypes}

\* One call of normalize_command_handler_result; the handler result and the
\* list returned are remembered.
Normalized(null, entries) ==
    /\ hist' = [hist EXCEPT !.normalize =
                    [called |-> TRUE, null |-> null, entries |-> entries,
                     out |-> NormalizeCommandHandlerResult(HandledCommand, null, entries)]]
    /\ UNCHANGED <<state, current_linenumber, last_lines, clear_to_send,
                   send_queue, command_queue, job_queue, internal_flags,
                   last_communication_error, resend_ok_timer, timers,
                   send_queue_active, job, flavor, transport, firmware_errors,
                   max_consecutive_timeouts,
                   pc, entry, estop, spin, pause, env>>

\* a handler returns None
HandlerReturnsNone == Normalized(TRUE, <<>>)

\* a handler returns a list
HandlerReturnsList ==
    \E n \in 0..MaxEntries : \E entries \in [1..n -> HandlerEntries] :
        Normalized(FALSE, entries)

NextNormalize ==
    \/ HandlerReturnsNone
    \/ HandlerReturnsList

\* the handlers of a command returning nothing or a list of whatever entries
SpecNormalize == InitIdle /\ [][NextNormalize]_vars

\* ------------------------------------------------- the send token on its own
\* One operation of the token, under its mutex, by whichever thread; the
\* operation and the token it was applied to are remembered.
TokenOp(op, t) ==
    /\ clear_to_send' = t
    /\ hist' = [hist EXCEPT !.token = [op |-> op, before |-> clear_to_send]]
    /\ UNCHANGED <<state, current_linenumber, last_lines, send_queue,
                   command_queue, job_queue, internal_flags,
                   last_communication_error, resend_ok_timer, timers,
                   send_queue_active, job, flavor, transport, firmware_errors,
                   max_consecutive_timeouts,
                   pc, entry, estop, spin, pause, env>>

\* set()
TokenOpSet == TokenOp("set", SendTokenSet(clear_to_send, FALSE, TokenMax))

\* set(ignore=True)
TokenOpSetIgnore ==
    /\ clear_to_send.ignored < MaxIgnored
    /\ TokenOp("set_ignore", SendTokenSet(clear_to_send, TRUE, TokenMax))

\* clear()
TokenOpClear == TokenOp("clear", SendTokenClear(clear_to_send, FALSE, TokenMax))

\* clear(completely=True)
TokenOpClearCompletely ==
    TokenOp("clear_completely", SendTokenClear(clear_to_send, TRUE, TokenMax))

NextToken ==
    \/ TokenOpSet
    \/ TokenOpSetIgnore
    \/ TokenOpClear
    \/ TokenOpClearCompletely

\* every sequence of operations on a new SendToken(max=10)
SpecToken == Init /\ [][NextToken]_vars

\* C4: after any sequence of set(), set(ignore=true), clear() and
\* clear(completely=true) the counter of the token is within 0..max.
TokenCounterInRange ==
    /\ 0 <= clear_to_send.counter
    /\ clear_to_send.counter <= TokenMax

\* set() was called on a token at its maximum
TokenSetAtMax ==
    /\ hist.token.op = "set"
    /\ hist.token.before.counter = TokenMax
    /\ clear_to_send.counter = TokenMax

\* C6: clear() with ignored > 0 takes one off ignored and one off the
\* counter; with ignored = 0 it sets the counter to max(0, counter - 1);
\* clear(completely=true) sets counter and ignored to 0.
TokenClearAsTable ==
    LET b == hist.token.before
    IN  /\ hist.token.op = "clear" /\ b.ignored > 0 =>
              clear_to_send = [counter |-> Max(0, b.counter - 1),
                               ignored |-> b.ignored - 1]
        /\ hist.token.op = "clear" /\ b.ignored = 0 =>
              clear_to_send = [counter |-> Max(0, b.counter - 1), ignored |-> 0]
        /\ hist.token.op = "clear_completely" =>
              clear_to_send = [counter |-> 0, ignored |-> 0]

\* ------------------------------------------------------ numbering and resends
\* C1: after a resend request for a line k of the line history, made when
\* current_linenumber = c > k, the numbered lines written next are
\* k, k+1, ..., c-1 in that order, and no other numbered line is written
\* before line c-1 was resent.  Stated for the requests that arrive while the
\* send loop holds no line, and leaving the lines of an emergency stop aside.
ResendInOrder ==
    \A i \in 1..Len(hist.rs.seq) : hist.rs.seq[i] = hist.rs.k + i - 1

\* C2: the numbered lines written for the first time are, in order and with
\* their line numbers, the lines appended to the line history; each took the
\* value of current_linenumber and advanced it by one, whichever of the send
\* loop and the M112 handler wrote it.
FirstWritesAreHistory ==
    /\ hist.wire = last_lines.lines
    /\ \A i \in 1..(Len(hist.wire) - 1) : hist.wire[i + 1][2] = hist.wire[i][2] + 1
    /\ hist.wire # <<>> => current_linenumber = Last(hist.wire)[2] + 1

\* the send loop wrote a line between two numbered lines of the M112 handler
WriteInsideEmergencyStop ==
    /\ estop.owner = "client"
    /\ Len(estop.left) = 1
    /\ hist.last_write.src \in {"user", "internal"}
    /\ Len(hist.wire) >= 3

\* the send loop passes an M110 through its sending handler
M110SendingStep ==
    /\ pc = "process"
    /\ entry.code = "M110"
    /\ pc' = "send"

\* C3: a step that is neither the M110 sending handler nor the handling of
\* an external reset leaves current_linenumber unchanged or adds one to it.
LineNumberSteps ==
    [][\/ current_linenumber' = current_linenumber
       \/ current_linenumber' = current_linenumber + 1
       \/ M110SendingStep
       \/ RecvStart]_vars

\* an external reset took the line number back to 0 after lines were sent
LineNumberReset ==
    /\ current_linenumber = 0
    /\ pc # "send"
    /\ entry.code # "M110"
    /\ hist.last_write.src = "internal"

\* C5: the send loop never completed more wait()-then-clear() pairs than
\* set() was called on the token.
PairsWithinSets == hist.credit >= 0

\* the send loop used up every set() made so far and waits again
AllSetsUsed ==
    /\ pc = "wait"
    /\ hist.credit = 0
    /\ hist.last_write.src = "user"
    /\ ~SendTokenWait(clear_to_send)

\* C10: when an M110 N<k> passes the sending phase, current_linenumber
\* becomes k, the line history is emptied and the resend window is closed:
\* resend_requested and resend_linenumber unset, resend_active false.
M110ClosesResendWindow ==
    [][M110SendingStep =>
          /\ current_linenumber' = entry.arg
          /\ last_lines' = LineHistoryNew
          /\ internal_flags'.resend_requested = None
          /\ internal_flags'.resend_linenumber = None
          /\ ~send_queue'.resend_active]_vars

\* ------------------------------------------------------- the resend-ok timer
\* C7: with trigger_ok_after_resend = detect, no resend request gets more
\* than one synthetic ok, whichever way the timer thread and the receive
\* thread interleave.
OneSyntheticOk == \A i \in 1..Len(timers) : timers[i].calls <= 1

\* ------------------------------------------------------- pausing and markers
\* C8: while the state is PAUSING no line taken from the job is written, and
\* the send queue markers run in the order in which they were enqueued.
PausingWritesNoJobLine ==
    /\ ~(hist.last_write.src = "file" /\ hist.last_write.at = "PAUSING")
    /\ ~hist.misordered

\* C8, amended: while the state is PAUSING no line is taken from the job
\* (lines taken before are still written), and the send queue markers run
\* in the order in which they were enqueued.
PausingTakesNoJobLine ==
    /\ hist.taken_at # "PAUSING"
    /\ ~hist.misordered

\* a line of the job was written while PAUSING, after the marker of the
\* job's start ran
JobLineWrittenWhilePausing ==
    /\ state = "PAUSING"
    /\ hist.last_write = [src |-> "file", at |-> "PAUSING"]
    /\ hist.ran = "started"

\* C9: when the callback of a send queue marker runs, every command handed
\* to send_commands before the marker was written or dropped.
MarkerAfterCommands == ~hist.overtaken

\* -------------------------------------------------------- reset mid-print
\* what _on_external_reset puts into the emptied send queue: the hello and
\* the line number reset
AfterResetQueue == <<CommandHello, CommandSetLine(0)>>

\* C11: when `start` is received while a job is processed, the job is
\* cancelled and all that is added to the job queue is the marker of the
\* cancellation (no position query), nothing that was pending in the send
\* queue or the command queue stays there to be written (the send queue
\* holds the hello, the line number reset and the head of the job queue),
\* the send token is zeroed, current_linenumber is 0, the line history is
\* empty, the flavor is the generic one and on_protocol_reset is notified
\* with idle = false.
ResetMidJob ==
    [][(/\ RecvStart
        /\ job.kind # "none"
        /\ state \in PROCESSING_STATES \cup {"PAUSED"})
       => /\ state' = "CANCELLING"
          /\ ~job'.active
          /\ send_queue'.send =
                 Append(AfterResetQueue, Head(Append(job_queue, Marker("cancelled"))))
          /\ job_queue' = Tail(Append(job_queue, Marker("cancelled")))
          /\ send_queue'.resend = <<>>
          /\ command_queue' = <<>>
          /\ pause'.record_cancel_data = pause.record_cancel_data
          /\ ~pause'.cancel_position_timer
          /\ clear_to_send' = SendTokenNew
          /\ current_linenumber' = 0
          /\ last_lines' = LineHistoryNew
          /\ flavor'.key = "generic"
          /\ hist'.reset.idle = "false"]_vars

\* `start` was handled mid-print with commands pending, on a printer that
\* had been identified as another flavor
ResetDrainedQueues ==
    /\ hist.reset = [idle |-> "false", drained |-> TRUE]
    /\ state = "CANCELLING"
    /\ internal_flags.firmware_identified
    /\ send_queue.send = Append(AfterResetQueue, Marker("cancelled"))

\* ------------------------------------------------- emergency stop, queuing
\* an M112 other than the repetition of a numbered line after a resend request
IsQueuedEStop(c) == c.kind = "cmd" /\ c.code = "M112" /\ c.src # "resend"

\* C12: an M112 given to send_commands is never in the send queue and never
\* held by the send loop for writing, in any state and with any kind of job.
EStopNeverQueued ==
    /\ \A i \in 1..Len(send_queue.send) : ~IsQueuedEStop(send_queue.send[i])
    /\ ~IsQueuedEStop(entry)

\* C13: when send_commands("M112") returns during a print, the emergency
\* stop was written; no M112 is left waiting in the command queue.  (Stated
\* for jobs that are not exclusive.)
EStopWrittenAtOnce ==
    (state = "PROCESSING" /\ job.active /\ ~job.exclusive)
    => \A i \in 1..Len(command_queue) : command_queue[i].code # "M112"


\* the states the protocol is in after _trigger_error
ErrorStates == {"ERROR", "DISCONNECTING_WITH_ERROR", "DISCONNECTED_WITH_ERROR"}

\* C14: once the emergency stop of a send_commands("M112") during a print was
\* written completely and nothing has been written since, the protocol is in
\* ERROR or disconnecting or disconnected with error.
EStopEndsInError ==
    (hist.last_write.src = "estop" /\ estop.owner = "none" /\ job.active)
    => state \in ErrorStates


\* C15: every timeout adds one to the count of consecutive timeouts and the
\* engine disconnects with error exactly when the ceiling of the category at
\* that moment (long, printing, idle) is above 0 and the count exceeds it;
\* every other line received sets the count to 0.
TimeoutsCounted ==
    [][/\ RecvTimeout =>
            LET ceiling ==
                    IF internal_flags.long_running_command
                    THEN max_consecutive_timeouts.long
                    ELSE IF state \in {"PROCESSING", "PAUSING", "CANCELLING"}
                    THEN max_consecutive_timeouts.printing
                    ELSE max_consecutive_timeouts.idle
                count == internal_flags.timeout_consecutive + 1
            IN  /\ internal_flags'.timeout_consecutive = count
                /\ (state' = "DISCONNECTED_WITH_ERROR") <=> (ceiling > 0 /\ count > ceiling)
       /\ (RecvOk \/ RecvOther) => internal_flags'.timeout_consecutive = 0
      ]_vars

\* the second timeout in a row during a long running command disconnects
\* where only the ceiling of long running commands is above 0
TimeoutsExceeded ==
    /\ state = "DISCONNECTED_WITH_ERROR"
    /\ internal_flags.long_running_command
    /\ internal_flags.timeout_consecutive = 2
    /\ max_consecutive_timeouts = [idle |-> 0, printing |-> 0, long |-> 1]

\* C16: a timeout during a blocking heatup (heating and long_running_command
\* set by the M109 sent), with no resend active and the count of timeouts not
\* above the ceiling, ends the heatup without disconnecting: heating and
\* long_running_command are both false afterwards.
HeatupOverOnTimeout ==
    [][(/\ RecvTimeout
        /\ internal_flags.heating
        /\ internal_flags.long_running_command
        /\ internal_flags.resend_requested = None
        /\ ~(/\ 0 < max_consecutive_timeouts.long
             /\ max_consecutive_timeouts.long < internal_flags.timeout_consecutive + 1))
       => /\ state' # "DISCONNECTED_WITH_ERROR"
          /\ ~internal_flags'.heating
          /\ ~internal_flags'.long_running_command
      ]_vars


\* C17: no command given to send_commands while PROCESSING with a job that is
\* not parallel went to the send queue without passing the command queue,
\* unless it was part of the job, forced or an emergency command, the job on
\* hold or not.
CommandQueueNotBypassed == ~hist.bypassed


\* C18: a line history never stores more than max lines; an append leaves
\* the newest entries, the appended one last, and the line number of every
\* entry it evicted cannot be looked up, nor can the missing line number of
\* an entry appended without one; a clear leaves nothing.
HistoryBounded ==
    LET h == last_lines
        all == Append(hist.history.before.lines, hist.history.entry)
        kept == Min(Len(all), HistoryCapacity)
    IN  /\ Len(h.lines) <= HistoryCapacity
        /\ ~LineHistoryContains(h, None)
        /\ hist.history.op = "clear" => h = LineHistoryNew
        /\ hist.history.op = "append" =>
               /\ h.lines = SubSeq(all, Len(all) - kept + 1, Len(all))
               /\ \A i \in 1..(Len(all) - kept) : ~LineHistoryContains(h, all[i][2])

\* an append to a full history evicted a numbered entry
HistoryEvicted ==
    /\ hist.history.op = "append"
    /\ Len(hist.history.before.lines) = HistoryCapacity
    /\ Head(hist.history.before.lines)[2] # None
    /\ hist.history.entry[2] # None


\* C19: an update of a slot of the temperature record with only actual leaves
\* the slot's target as it was, with only target its actual, and no update
\* changes any other slot; an update with neither actual nor target leaves
\* the whole record as it was.
TemperatureUntouched ==
    LET g == hist.temperature
        r == internal_flags.temperatures
    IN  g.slot[1] # "" =>
           /\ \A slot \in TemperatureSlots \ {g.slot} : SlotOf(r, slot) = SlotOf(g.before, slot)
           /\ g.target = None => PairOf(r, g.slot)[2] = PairOf(g.before, g.slot)[2]
           /\ g.actual = None => PairOf(r, g.slot)[1] = PairOf(g.before, g.slot)[1]
           /\ (g.actual = None /\ g.target = None) => r = g.before

\* C19, amended: an update of a slot of the temperature record with only
\* actual leaves the slot's target as it was, with only target its actual,
\* with neither both, and no update changes any other slot; the value given
\* is the one reported afterwards, and a tool without entry has got one.
TemperaturePartialUpdates ==
    LET g == hist.temperature
        r == internal_flags.temperatures
    IN  g.slot[1] # "" =>
           /\ \A slot \in TemperatureSlots \ {g.slot} : SlotOf(r, slot) = SlotOf(g.before, slot)
           /\ g.target = None => PairOf(r, g.slot)[2] = PairOf(g.before, g.slot)[2]
           /\ g.actual = None => PairOf(r, g.slot)[1] = PairOf(g.before, g.slot)[1]
           /\ g.target # None => PairOf(r, g.slot)[2] = g.target
           /\ g.actual # None => PairOf(r, g.slot)[1] = g.actual
           /\ SlotOf(r, g.slot) # NoSlot

\* a tool with a target got an update with only actual while the other tool,
\* the bed and the chamber hold values
TemperatureActualOnly ==
    /\ hist.temperature.slot = <<"tool", 1>>
    /\ hist.temperature.actual # None
    /\ hist.temperature.target = None
    /\ PairOf(hist.temperature.before, <<"tool", 1>>)[2] # None
    /\ \A slot \in TemperatureSlots : PairOf(hist.temperature.before, slot)[1] # None


\* the entries the statement of C20 lets through: all but the null ones, the
\* tuples without line and the tuples of a length other than 1, 2, 3
IsKeptAsStated(e) ==
    /\ e.kind # "none"
    /\ e.kind = "tuple" => (e.line # NullLine /\ e.len \in {1, 2, 3})

\* ... and the entries that are a string, a command or a tuple among them
IsKept(e) == IsKeptAsStated(e) /\ e.kind \in {"str", "command", "tuple"}

\* C20: normalize_command_handler_result returns the command alone for a
\* null handler result; for a list it returns one command per entry in the
\* entries' order, without the null entries, the tuples whose line is null
\* and the tuples of a length other than 1, 2, 3, and without these only.
NormalizeDropsAsStated ==
    LET g == hist.normalize
        kept == SelectSeq(g.entries, IsKeptAsStated)
    IN  g.called =>
           IF g.null THEN g.out = <<HandledCommand>>
           ELSE /\ Len(g.out) = Len(kept)
                /\ \A i \in 1..Len(kept) : i <= Len(g.out) => g.out[i].code = kept[i].line

\* C20, amended: ... and without the entries that are neither a string, a
\* command nor a tuple.
NormalizeDrops ==
    LET g == hist.normalize
        kept == SelectSeq(g.entries, IsKept)
    IN  g.called =>
           IF g.null THEN g.out = <<HandledCommand>>
           ELSE /\ Len(g.out) = Len(kept)
                /\ \A i \in 1..Len(kept) : g.out[i].code = kept[i].line

\* a list with an entry that is dropped and one that is kept after it
NormalizeDroppedOne ==
    /\ hist.normalize.called
    /\ Len(hist.normalize.entries) = 2
    /\ hist.normalize.entries[1].kind = "tuple"
    /\ hist.normalize.entries[1].len = MaxTupleLen
    /\ hist.normalize.entries[2].kind = "tuple"
    /\ Len(hist.normalize.out) = 1


\* C21: a resend request for a line number that is not in the line history,
\* received while no resend is requested, opens no resend window:
\* resend_requested is still unset and send_queue.resend_active still false
\* when it was handled, the engine busy or not.
UnknownResendOpensNoWindow ==
    [][\A n \in 0..MaxLine :
          (/\ RecvResendFor(n)
           /\ ~LineHistoryContains(last_lines, n)
           /\ internal_flags.resend_requested = None
           /\ ~send_queue.resend_active)
          => /\ internal_flags'.resend_requested = None
             /\ ~send_queue'.resend_active
      ]_vars


\* C22: a timeout while a resend is requested, the ceiling not exceeded, puts
\* one more line of the history in the resend queue, a line numbered from
\* resend_requested to current_linenumber - 1, sets the send token, and
\* leaves resend_linenumber, the next line of the window, as it was.
TimeoutResendsInWindow ==
    [][(/\ RecvTimeout
        /\ internal_flags.resend_requested # None
        /\ state' # "DISCONNECTED_WITH_ERROR")
       => /\ Len(send_queue'.resend) = Len(send_queue.resend) + 1
          /\ Last(send_queue'.resend).linenumber
                 \in internal_flags.resend_requested..(current_linenumber - 1)
          /\ clear_to_send'.counter = Min(clear_to_send.counter + 1, TokenMax)
          /\ internal_flags'.resend_linenumber = internal_flags.resend_linenumber
      ]_vars

\* C23: a resend request for the line that is to be sent next is ignored: the
\* resend window (resend_requested, resend_linenumber, resend_count,
\* send_queue.resend_active), current_linenumber and the line history stay
\* as they are
SpuriousResendIgnoredAlways ==
    [][\A n \in 0..MaxLine :
          (RecvResendFor(n) /\ n = current_linenumber)
          => /\ internal_flags'.resend_requested = internal_flags.resend_requested
             /\ internal_flags'.resend_linenumber = internal_flags.resend_linenumber
             /\ internal_flags'.resend_count = internal_flags.resend_count
             /\ send_queue'.resend_active = send_queue.resend_active
             /\ current_linenumber' = current_linenumber
             /\ last_lines' = last_lines
      ]_vars

\* C23, while no resend is requested: a resend request for the line that is
\* to be sent next is ignored
SpuriousResendIgnored ==
    [][\A n \in 0..MaxLine :
          (/\ RecvResendFor(n)
           /\ n = current_linenumber
           /\ internal_flags.resend_requested = None)
          => /\ internal_flags'.resend_requested = None
             /\ internal_flags'.resend_linenumber = internal_flags.resend_linenumber
             /\ internal_flags'.resend_count = internal_flags.resend_count
             /\ send_queue'.resend_active = send_queue.resend_active
             /\ current_linenumber' = current_linenumber
             /\ last_lines' = last_lines
      ]_vars

\* a resend request for the line to be sent next was ignored during a job
SpuriousResendSeen ==
    /\ hist.spurious
    /\ state = "PROCESSING"
    /\ internal_flags.resend_requested = None
    /\ ~send_queue.resend_active

\* ---------------------------------------------------- acknowledging events
\* lines of the printer other than ok that the run may hold
MaxFaultsAck == 1

\* a line that makes the flavor's comm_ignore_ok match
RecvIgnoreOk ==
    /\ RecvReady
    /\ RecvRoom
    /\ env.faults > 0
    /\ RecvDone(OnCommIgnoreOk(OnCommAny(Fault(S), FALSE)))

\* "wait"
RecvWait ==
    /\ RecvReady
    /\ RecvRoom
    /\ clear_to_send.counter < MaxAhead
    /\ RecvDone(OnCommWait(OnCommAny(S, FALSE)))

\* "busy: ..."
RecvBusy ==
    /\ RecvReady
    /\ RecvRoom
    /\ RecvDone(OnCommBusy(OnCommAny(S, FALSE)))

InitAck == Constructed({"never", "always"}, MaxFaultsAck, 0)

NextAck ==
    \/ Connect
    \/ RecvOk
    \/ RecvWait
    \/ RecvBusy
    \/ RecvIgnoreOk
    \/ RecvResend
    \/ StartJob
    \/ RecvSpin
    \/ SendLoopWait
    \/ SendLoopGet
    \/ SendLoopProcess
    \/ SendLoopSend

\* a printer that answers with ok, wait, busy and resend requests, with and
\* without a job
SpecAck == InitAck /\ [][NextAck]_vars

\* set() was called once on the send token
TokenIncremented ==
    clear_to_send'.counter = Min(clear_to_send.counter + 1, TokenMax)

\* the printer's line is answered by a simulated ok
RecvSimulatedOk ==
    /\ flavor.trigger_ok_after_resend = "always"
    /\ \E n \in 0..MaxLine : RecvResendFor(n)

MaxSendsLoop == 1
MaxResendsLoop == 1

\* the flavors that differ in how they treat commands that are not G-code
LoopFlavors ==
    {[Flavor("never") EXCEPT !.unknown_requires_ack = a, !.unknown_with_checksum = w] :
        a \in BOOLEAN, w \in BOOLEAN}

\* what the client sends: G-code, G-code a plugin suppresses when it is to be
\* sent, a command that is not G-code, an empty line, an AtCommand
LoopCommands ==
    {Cmd("G0", 0, "none", "user", "none"), Cmd("M117", 0, "none", "user", "none"),
     Unknown("FOO", "user"), Unknown("", "user"), AtCmd("@note", "user")}

\* send_commands(c)
ClientSendAny ==
    /\ ClientReady
    /\ env.sends > 0
    /\ \E c \in LoopCommands :
          Commit(SendCommands([S EXCEPT !.env.sends = @ - 1], c, FALSE, "none"))

InitLoop ==
    ConstructedFor(LoopFlavors, {FALSE}, MaxResendsLoop, MaxSendsLoop, {DefaultCeilings})

NextLoop ==
    \/ Connect
    \/ RecvOk
    \/ RecvResend
    \/ ClientSendAny
    \/ StartJob
    \/ RecvSpin
    \/ SendLoopWait
    \/ SendLoopGet
    \/ SendLoopProcess
    \/ SendLoopSend

\* a printer that is sent commands of every kind, with and without a job
SpecLoop == InitLoop /\ [][NextLoop]_vars

\* C25: the send loop calls clear() on the send token after it wrote a
\* command exactly if the command is G-code (resent or not) or the flavor
\* has unknown_requires_ack; for a marker, a command a hook drops, an empty
\* line and an AtCommand it writes nothing, leaves the token as it is and goes on to the
\* next entry
ClearOnlyForAcknowledged ==
    [][(/\ pc \in {"process", "send"}
        /\ pc' \in {"wait", "get"})
       => IF /\ entry.linenumber = None
             /\ \/ entry.kind = "marker"
                \/ entry.kind = "at"
                \/ entry.code = ""
                \/ TriggerEvents(S) /\ entry.code \in SuppressedWhenSending
          THEN /\ pc' = "get"
               /\ clear_to_send' = clear_to_send
               /\ current_linenumber' = current_linenumber
               /\ last_lines' = last_lines
               /\ hist'.last_write = hist.last_write
               /\ hist'.wire = hist.wire
          ELSE /\ pc' = "wait"
               /\ clear_to_send' =
                      IF entry.kind = "cmd" \/ flavor.unknown_requires_ack
                      THEN SendTokenClear(clear_to_send, FALSE, TokenMax)
                      ELSE clear_to_send
      ]_vars

\* a command that is not G-code was written by a flavor that expects no
\* acknowledgement for it, and the token is still set
UnknownWrittenWithoutClear ==
    /\ hist.loop = [did |-> "continue", text |-> "FOO"]
    /\ ~flavor.unknown_requires_ack
    /\ hist.last_write.src = "user"
    /\ clear_to_send.counter > 0

\* ------------------------------------------------ the checksum rule on its own
\* the values of flavor.send_checksum
ChecksumModes == {"always", "printing", "never"}

ChecksumFlavors ==
    {[Flavor("never") EXCEPT !.send_checksum = m, !.unknown_with_checksum = w] :
        m \in ChecksumModes, w \in BOOLEAN}

\* the states in which a command is written
ChecksumStates == {"CONNECTING", "CONNECTED", "STARTING", "PROCESSING", "PAUSED"}

\* a command of checksum_requiring_commands, another G-code command, a
\* command that is not G-code
ChecksumCommands ==
    {Cmd("M110", 0, "none", "user", "none"), Cmd("G0", 0, "none", "user", "none"),
     Unknown("FOO", "user")}

\* a connected engine in any of these states, before and after the firmware
\* was identified, for every flavor and both kinds of transport
InitChecksum ==
    /\ state \in ChecksumStates
    /\ current_linenumber = 1
    /\ last_lines = LineHistoryNew
    /\ clear_to_send = SendTokenNew
    /\ send_queue = SendQueueNew
    /\ command_queue = <<>>
    /\ job_queue = <<>>
    /\ internal_flags \in {[InternalFlagsNew EXCEPT !.firmware_identified = i] :
                               i \in BOOLEAN}
    /\ last_communication_error = "none"
    /\ resend_ok_timer = None
    /\ timers = <<>>
    /\ send_queue_active = TRUE
    /\ job = NoJob
    /\ flavor \in ChecksumFlavors
    /\ transport \in {[message_integrity |-> m] : m \in BOOLEAN}
    /\ firmware_errors = "disconnect"
    /\ max_consecutive_timeouts = DefaultCeilings
    /\ pc = "wait"
    /\ entry = NoEntry
    /\ estop = NoEStop
    /\ spin = FALSE
    /\ pause = NoPause
    /\ env = [jobs |-> 0, pauses |-> 0, cancels |-> 0, faults |-> 0, sends |-> 0]
    /\ hist = HistNew

\* _do_send(c)
ChecksumOpFor(c) ==
    /\ current_linenumber < MaxLine
    /\ Commit(DoSend(S, c))

ChecksumOp == \E c \in ChecksumCommands : ChecksumOpFor(c)

NextChecksum == ChecksumOp

SpecChecksum == InitChecksum /\ [][NextChecksum]_vars

\* C26: a command is written with line number and checksum exactly if the
\* transport has no message integrity and the command is one of
\* checksum_requiring_commands, or is G-code or covered by
\* unknown_with_checksum while checksums are enabled: send_checksum is always,
\* or it is not never and the state is PROCESSING or the firmware is not yet
\* identified
ChecksumExactlyWhenNeeded ==
    [][\A c \in ChecksumCommands :
          ChecksumOpFor(c) =>
              LET checksum_enabled ==
                      \/ flavor.send_checksum = "always"
                      \/ /\ flavor.send_checksum # "never"
                         /\ \/ state = "PROCESSING"
                            \/ ~internal_flags.firmware_identified
                  numbered ==
                      /\ ~transport.message_integrity
                      /\ \/ c.code \in ChecksumRequiringCommands
                         \/ /\ c.kind = "cmd" \/ flavor.unknown_with_checksum
                            /\ checksum_enabled
              IN  IF numbered
                  THEN /\ current_linenumber' = current_linenumber + 1
                       /\ hist'.wire = Append(hist.wire, <<LineOf(c), current_linenumber>>)
                       /\ LineHistoryContains(last_lines', current_linenumber)
                  ELSE /\ current_linenumber' = current_linenumber
                       /\ hist'.wire = hist.wire
                       /\ last_lines' = last_lines
      ]_vars

\* a command that is not G-code was written with line number and checksum
\* outside a job, the firmware not being identified yet
UnknownWrittenWithChecksum ==
    /\ hist.wire # <<>>
    /\ Last(hist.wire)[1] = <<"FOO", 0>>
    /\ flavor.send_checksum = "printing"
    /\ state = "CONNECTED"
    /\ ~internal_flags.firmware_identified

\* ------------------------------------------------------ emergency commands
\* emergency commands the client sends
MaxSendsEmergency == 2

\* "Cap:EMERGENCY_PARSER:1" or "...:0"
RecvCapability ==
    /\ RecvReady
    /\ RecvRoom
    /\ \E enabled \in BOOLEAN :
          RecvDone(OnMessageFirmwareCapability(OnCommAny(S, FALSE),
                                               "EMERGENCY_PARSER", enabled))

\* flavor.emergency_commands has M108
CommandBreakHeatup == Cmd("M108", 0, "none", "user", "none")

\* send_commands("M108")
ClientSendEmergency ==
    /\ ClientReady
    /\ env.sends > 0
    /\ Commit(SendCommands([S EXCEPT !.env.sends = @ - 1],
                           CommandBreakHeatup, FALSE, "none"))

InitEmergency == Constructed({"never"}, 0, MaxSendsEmergency)

NextEmergency ==
    \/ Connect
    \/ RecvOk
    \/ RecvCapability
    \/ ClientSendEmergency
    \/ StartJob
    \/ RecvSpin
    \/ SendLoopWait
    \/ SendLoopGet
    \/ SendLoopProcess
    \/ SendLoopSend

\* a printer that reports its emergency parser, and a client that sends M108,
\* with and without a job
SpecEmergency == InitEmergency /\ [][NextEmergency]_vars

\* C27: once the firmware has reported the capability EMERGENCY_PARSER as
\* enabled, an emergency command other than M112 is written while
\* send_commands runs: it enters no queue and is not left to the send loop
EmergencyWrittenOutOfBand ==
    [][(/\ ClientSendEmergency
        /\ "EMERGENCY_PARSER" \in internal_flags.firmware_capabilities)
       => /\ send_queue' = send_queue
          /\ command_queue' = command_queue
          /\ hist'.last_write.src = "emergency"
      ]_vars

\* ------------------------------------------------ the receive dispatcher
\* registered message names a line is matched against
MaxMessages == 2

\* What a registered message name does with a line: whether the engine has a
\* handler for it, what the flavor's matcher returns (a truth value alone, or
\* with continue_further), whether the flavor's parser returns None, and
\* whether the handler's result is truthy.
Messages ==
    [handler : BOOLEAN, matches : BOOLEAN, further : {"unset", "true", "false"},
     parsed : BOOLEAN, result : BOOLEAN]

\* continue_further as _receive takes it from the matcher's result
ContinueFurther(m) == IF m.further = "unset" THEN ~m.matches ELSE m.further = "true"

\* the loop of _receive taking a truthy result of a handler as the end of the
\* line's processing
RECURSIVE ReceiveStoppingOnResult(_, _)
ReceiveStoppingOnResult(messages, i) ==
    IF i > Len(messages) THEN [seen |-> <<>>, ran |-> <<>>]
    ELSE LET m == messages[i]
             Further(ran) ==
                 LET rest == ReceiveStoppingOnResult(messages, i + 1)
                 IN  [seen |-> <<i>> \o rest.seen, ran |-> ran \o rest.ran]
             Break(ran) == [seen |-> <<i>>, ran |-> ran]
         IN  IF ~m.handler THEN [Further(<<>>) EXCEPT !.seen = Tail(@)]
             ELSE IF m.matches
             THEN IF ~m.parsed
                  THEN IF ContinueFurther(m) THEN Further(<<>>) ELSE Break(<<>>)
                  ELSE IF m.result
                  THEN IF ContinueFurther(m) THEN Further(<<i>>) ELSE Break(<<i>>)
                  ELSE Further(<<i>>)
             ELSE IF ~ContinueFurther(m) THEN Break(<<>>)
             ELSE Further(<<>>)

\* the loop of _receive over the registered messages from the i-th on: the
\* names whose matcher was called, and those whose handler ran
RECURSIVE Receive(_, _)
Receive(messages, i) ==
    IF i > Len(messages) THEN [seen |-> <<>>, ran |-> <<>>]
    ELSE LET m == messages[i]
             Further(ran) ==
                 LET rest == Receive(messages, i + 1)
                 IN  [seen |-> <<i>> \o rest.seen, ran |-> ran \o rest.ran]
             Break(ran) == [seen |-> <<i>>, ran |-> ran]
         IN  IF ~m.handler THEN [Further(<<>>) EXCEPT !.seen = Tail(@)]
             ELSE IF m.matches
             THEN IF ~m.parsed
                  THEN IF ContinueFurther(m) THEN Further(<<>>) ELSE Break(<<>>)
                  ELSE IF ~m.result
                  THEN IF ContinueFurther(m) THEN Further(<<i>>) ELSE Break(<<i>>)
                  ELSE Further(<<i>>)
             ELSE IF ~ContinueFurther(m) THEN Break(<<>>)
             ELSE Further(<<>>)

\* One line is dispatched; the messages and what was done with them are
\* remembered.
ReceiveLine ==
    /\ ~hist.receive.called
    /\ \E n \in 1..MaxMessages : \E messages \in [1..n -> Messages] :
          hist' = [hist EXCEPT !.receive =
                       [called |-> TRUE, messages |-> messages,
                        seen |-> Receive(messages, 1).seen,
                        ran |-> Receive(messages, 1).ran]]
    /\ UNCHANGED <<state, current_linenumber, last_lines, clear_to_send,
                   send_queue, command_queue, job_queue, internal_flags,
                   last_communication_error, resend_ok_timer, timers,
                   send_queue_active, job, flavor, transport, firmware_errors,
                   max_consecutive_timeouts,
                   pc, entry, estop, spin, pause, env>>

NextReceive == ReceiveLine

\* one line of whatever kind against one or two registered messages
SpecReceive == InitIdle /\ [][NextReceive]_vars

\* i is among the entries of q
Among(i, q) == \E k \in 1..Len(q) : q[k] = i

\* C28: when a message matches with continue_further false and its handler
\* returns a truthy result, no further message is processed for the line
TruthyResultStops ==
    \A i \in 1..Len(hist.receive.messages) :
        (/\ Among(i, hist.receive.ran)
         /\ ~ContinueFurther(hist.receive.messages[i])
         /\ hist.receive.messages[i].result)
        => \A j \in (i + 1)..Len(hist.receive.messages) : ~Among(j, hist.receive.seen)

\* C28, as the loop has it: when a message matches with continue_further
\* false and its handler returns nothing or a falsy result, no further
\* message is processed for the line; after a truthy result the next message
\* that has a handler is matched against the line, whatever continue_further is
FalsyResultStops ==
    \A i \in 1..Len(hist.receive.messages) :
        LET m == hist.receive.messages[i]
            later == (i + 1)..Len(hist.receive.messages)
        IN  Among(i, hist.receive.ran) =>
               IF m.result
               THEN \A j \in later :
                       (hist.receive.messages[j].handler
                        /\ \A k \in (i + 1)..(j - 1) : ~hist.receive.messages[k].handler)
                       => Among(j, hist.receive.seen)
               ELSE ~ContinueFurther(m) =>
                       \A j \in later : ~Among(j, hist.receive.seen)

\* a line ended at its first message, whose handler returned nothing, and
\* never reached the second
LineStoppedAtFirstMatch ==
    /\ hist.receive.called
    /\ Len(hist.receive.messages) = 2
    /\ hist.receive.messages[1].matches
    /\ hist.receive.messages[1].further = "unset"
    /\ ~hist.receive.messages[1].result
    /\ hist.receive.messages[2].handler
    /\ hist.receive.ran = <<1>>
    /\ hist.receive.seen = <<1>>

\* ------------------------------------------------------------- disconnecting
\* Protocol.disconnect() with _handle_disconnecting: the transport is closed,
\* nothing is received any more
ClientDisconnect ==
    /\ IsOperational(S)
    /\ MutexFree
    /\ ~spin
    /\ Commit([HandleDisconnecting(S) EXCEPT !.state = "DISCONNECTED"])

InitDisconnect == Constructed({"never"}, 0, 0)

NextDisconnect ==
    \/ Connect
    \/ RecvOk
    \/ StartJob
    \/ RecvSpin
    \/ ClientDisconnect
    \/ SendLoopWait
    \/ SendLoopGet
    \/ SendLoopProcess
    \/ SendLoopSend

\* a client that disconnects at any time, with and without a job; the send
\* loop thread is scheduled whenever it can take a step
SpecDisconnect ==
    /\ InitDisconnect
    /\ [][NextDisconnect]_vars
    /\ WF_vars(SendLoopWait)
    /\ WF_vars(SendLoopGet)
    /\ WF_vars(SendLoopProcess)
    /\ WF_vars(SendLoopSend)

\* C29: once send_queue_active is cleared, the send loop that was started
\* comes to its end, wherever it was waiting
SendLoopTerminates ==
    (~send_queue_active /\ pc # "idle") ~> (pc = "done")

MaxPausesLogged == 2

\* pause_processing(log_position=True)
ClientPauseLogged ==
    /\ job.kind # "none"
    /\ state \in {"PROCESSING", "STARTING", "RESUMING"}
    /\ MutexFree
    /\ env.pauses > 0
    /\ Done(PauseProcessing([S EXCEPT !.env.pauses = @ - 1], TRUE))

\* the timer thread of _pause_position_timer finds it not cancelled
PauseTimerFire ==
    /\ pause.pause_timer_armed
    /\ pause' = [pause EXCEPT !.pause_timer_armed = FALSE,
                              !.pause_failed_calls = @ + 1]
    /\ UNCHANGED <<state, current_linenumber, last_lines, clear_to_send,
                   send_queue, command_queue, job_queue, internal_flags,
                   last_communication_error, resend_ok_timer, timers,
                   send_queue_active, job, flavor, transport, firmware_errors,
                   max_consecutive_timeouts,
                   pc, entry, estop, spin, env, hist>>

\* ... and calls _pause_preparation_failed
PauseTimerRun ==
    /\ pause.pause_failed_calls > 0
    /\ MutexFree
    /\ Done(PausePreparationDone([S EXCEPT !.pause.pause_failed_calls = @ - 1], TRUE))

InitPause ==
    /\ state = "DISCONNECTED"
    /\ current_linenumber = 1
    /\ last_lines = LineHistoryNew
    /\ clear_to_send = SendTokenNew
    /\ send_queue = SendQueueNew
    /\ command_queue = <<>>
    /\ job_queue = <<>>
    /\ internal_flags = InternalFlagsNew
    /\ last_communication_error = "none"
    /\ resend_ok_timer = None
    /\ timers = <<>>
    /\ send_queue_active = FALSE
    /\ job = NoJob
    /\ flavor = Flavor("never")
    /\ transport = [message_integrity |-> FALSE]
    /\ firmware_errors = "disconnect"
    /\ max_consecutive_timeouts = DefaultCeilings
    /\ pc = "idle"
    /\ entry = NoEntry
    /\ estop = NoEStop
    /\ spin = FALSE
    /\ pause = NoPause
    /\ env = [jobs |-> MaxJobs, pauses |-> MaxPausesLogged, cancels |-> 0,
              faults |-> 0, sends |-> 0]
    /\ hist = HistNew

NextPause ==
    \/ Connect
    \/ RecvOk
    \/ SendLoopWait
    \/ SendLoopGet
    \/ SendLoopProcess
    \/ SendLoopSend
    \/ StartJob
    \/ ClientPauseLogged
    \/ ClientResume
    \/ RecvPosition
    \/ PauseTimerFire
    \/ PauseTimerRun
    \/ RecvSpin

\* one job paused with position logging and resumed by the client, with the
\* thread of the pause position watchdog followed from its check to its call
SpecPause == InitPause /\ [][NextPause]_vars

\* on_sent callbacks of pause_processing that are still to be called
RECURSIVE PauseCallbacks(_)
PauseCallbacks(q) ==
    IF q = <<>> THEN 0
    ELSE (IF Head(q).on_sent = "pause_move_finished" THEN 1 ELSE 0)
         + PauseCallbacks(Tail(q))

\* no pause is still being prepared: no finish-moving command of a pause is
\* unsent, no watchdog is referred to, no watchdog thread is about to call
\* and no position report is waited for
PausesSettled ==
    /\ PauseCallbacks(job_queue) + PauseCallbacks(send_queue.send)
          + PauseCallbacks(<<entry>>) = 0
    /\ ~pause.pause_position_timer
    /\ pause.pause_failed_calls = 0
    /\ ~pause.record_pause_data

\* C31: one PAUSED marker is enqueued with every notification of
\* on_protocol_job_paused, no more pauses are notified than were accepted,
\* and once no pause is being prepared any more every accepted pause was
\* notified, whichever of the position report and the watchdog came first
PausedNotifiedOnce ==
    /\ hist.paused.markers = hist.paused.notified
    /\ hist.paused.notified <= hist.paused.accepted
    /\ PausesSettled => hist.paused.notified = hist.paused.accepted

\* ------------------------------------------------------------------ cancels
\* times the client calls cancel_processing in one run
MaxCancelsRepeated == 2

InitCancel ==
    /\ state = "DISCONNECTED"
    /\ current_linenumber = 1
    /\ last_lines = LineHistoryNew
    /\ clear_to_send = SendTokenNew
    /\ send_queue = SendQueueNew
    /\ command_queue = <<>>
    /\ job_queue = <<>>
    /\ internal_flags = InternalFlagsNew
    /\ last_communication_error = "none"
    /\ resend_ok_timer = None
    /\ timers = <<>>
    /\ send_queue_active = FALSE
    /\ job = NoJob
    /\ flavor = Flavor("never")
    /\ transport = [message_integrity |-> FALSE]
    /\ firmware_errors = "disconnect"
    /\ max_consecutive_timeouts = DefaultCeilings
    /\ pc = "idle"
    /\ entry = NoEntry
    /\ estop = NoEStop
    /\ spin = FALSE
    /\ pause = NoPause
    /\ env = [jobs |-> MaxJobs, pauses |-> MaxPauses,
              cancels |-> MaxCancelsRepeated, faults |-> 0, sends |-> 0]
    /\ hist = HistNew

NextCancel ==
    \/ Connect
    \/ RecvOk
    \/ SendLoopWait
    \/ SendLoopGet
    \/ SendLoopProcess
    \/ SendLoopSend
    \/ StartJob
    \/ ClientPause
    \/ ClientResume
    \/ ClientCancel
    \/ RecvPosition
    \/ PausePositionTimeout
    \/ CancelPositionTimeout
    \/ RecvSpin

\* one job paused, resumed and cancelled by the client, the cancel repeated
\* at any time
SpecCancel == InitCancel /\ [][NextCancel]_vars

\* no cancel is still being prepared: no finish-moving command or marker is
\* unsent, no position report is waited for and no watchdog is referred to
CancelsSettled ==
    /\ job_queue = <<>>
    /\ send_queue.send = <<>>
    /\ entry = NoEntry
    /\ ~pause.cancel_position_timer
    /\ ~pause.record_cancel_data

LineNumbersResetBeforeStarted ==
    hist.ran = "started"
        => /\ \A i \in 1..Len(command_queue) : command_queue[i] # CommandSetLine(0)
           /\ \A i \in 1..Len(send_queue.send) : send_queue.send[i] # CommandSetLine(0)

\* ------------------------------------------------------------ firmware errors
\* _on_comm_error for a line no error handler and no hook takes, with the
\* errors that match error_sdcard disconnecting under every policy
OnCommErrorSdcardFirst(s, sdcard) ==
    LET s1 == [s EXCEPT !.hist.error.line = IF sdcard THEN "sdcard" ELSE "other"]
    IN  IF s.firmware_errors = "disconnect" \/ sdcard THEN TriggerError(s1)
        ELSE IF s.firmware_errors # "ignore"
        THEN IF s.state \in PROCESSING_STATES
             THEN TokenSet(CancelProcessing(s1, TRUE))
             ELSE s1
        ELSE TokenSet(s1)

\* _on_comm_error for a line no error handler and no hook takes; sdcard: the
\* line matches flavor.error_sdcard
OnCommError(s, sdcard) ==
    LET s1 == [s EXCEPT !.hist.error.line = IF sdcard THEN "sdcard" ELSE "other"]
    IN  IF s.firmware_errors # "ignore"
        THEN IF s.firmware_errors = "disconnect" \/ sdcard THEN TriggerError(s1)
             ELSE IF s.state \in PROCESSING_STATES
             THEN TokenSet(CancelProcessing(s1, TRUE))
             ELSE s1
        ELSE TokenSet(s1)

\* error lines received in one run
MaxFaultsError == 1

\* the values of firmware_errors
FirmwareErrorPolicies == {"disconnect", "cancel", "ignore"}

\* "Error: ..."
RecvErrorFor(sdcard) ==
    /\ RecvReady
    /\ RecvRoom
    /\ env.faults > 0
    /\ clear_to_send.counter < MaxAhead
    /\ RecvDone(OnCommError(OnCommAny(Fault(S), FALSE), sdcard))

RecvError == \E sdcard \in BOOLEAN : RecvErrorFor(sdcard)

InitError ==
    /\ state = "DISCONNECTED"
    /\ current_linenumber = 1
    /\ last_lines = LineHistoryNew
    /\ clear_to_send = SendTokenNew
    /\ send_queue = SendQueueNew
    /\ command_queue = <<>>
    /\ job_queue = <<>>
    /\ internal_flags = InternalFlagsNew
    /\ last_communication_error = "none"
    /\ resend_ok_timer = None
    /\ timers = <<>>
    /\ send_queue_active = FALSE
    /\ job = NoJob
    /\ flavor = Flavor("never")
    /\ transport = [message_integrity |-> FALSE]
    /\ firmware_errors \in FirmwareErrorPolicies
    /\ max_consecutive_timeouts = DefaultCeilings
    /\ pc = "idle"
    /\ entry = NoEntry
    /\ estop = NoEStop
    /\ spin = FALSE
    /\ pause = NoPause
    /\ env = [jobs |-> MaxJobs, pauses |-> MaxPauses, cancels |-> 0,
              faults |-> MaxFaultsError, sends |-> 0]
    /\ hist = HistNew

NextError ==
    \/ Connect
    \/ RecvOk
    \/ RecvError
    \/ SendLoopWait
    \/ SendLoopGet
    \/ SendLoopProcess
    \/ SendLoopSend
    \/ StartJob
    \/ ClientPause
    \/ ClientResume
    \/ RecvPosition
    \/ PausePositionTimeout
    \/ CancelPositionTimeout
    \/ RecvSpin

\* a printer that reports an error at any time, with and without a job,
\* under each policy
SpecError == InitError /\ [][NextError]_vars

\* the error led to ERROR and the disconnect
ErrorDisconnected ==
    /\ state' = "DISCONNECTED_WITH_ERROR"
    /\ ~send_queue_active'
    /\ hist'.error.reason = "firmware"

\* the error cancelled the job; the protocol stays connected
ErrorCancelled ==
    /\ state' = "CANCELLING"
    /\ ~job'.active
    /\ hist'.cancelled.accepted = hist.cancelled.accepted + 1

\* the error changed neither state nor job and triggered no error of the
\* protocol
ErrorIgnored ==
    /\ state' = state
    /\ job' = job
    /\ hist'.error.reason = hist.error.reason

Truthy(v) == v # None /\ v # 0

\* the GcodeCommand of "T<n>", and of "M104 S<s>" with and without "T<t>":
\* tool, t and s are numbers, an argument left out is None
CommandSetTool(n) == [code |-> "T", tool |-> n, t |-> None, s |-> None, r |-> None]
CommandSetExtruderTemp(s, t) ==
    [code |-> "M104", tool |-> None, t |-> t, s |-> s, r |-> None]

\* _gcode_T_sent
GcodeTSent(s, command) ==
    IF Truthy(command.tool)
    THEN [s EXCEPT !.internal_flags.current_tool = command.tool]
    ELSE s

\* _gcode_M104_sent; float() keeps the value of the number it is given
GcodeM104Sent(s, command, wait, support_r) ==
    LET tool_num == IF Truthy(command.t) THEN command.t
                    ELSE s.internal_flags.current_tool
        s1 == IF Truthy(command.t) /\ wait
              THEN [s EXCEPT !.internal_flags.former_tool = s.internal_flags.current_tool,
                             !.internal_flags.current_tool = tool_num]
              ELSE s
        target == IF command.s # None THEN command.s
                  ELSE IF command.r # None /\ support_r THEN command.r
                  ELSE None
    IN  IF Truthy(target)
        THEN [s1 EXCEPT !.internal_flags.temperatures = SetTool(@, tool_num, None, target)]
        ELSE s1

\* the targets a client sets
TargetValues == {0, 1, 2}

\* the sent phase of a command, remembered with the tool that was current
Sent(s, command) ==
    [s EXCEPT !.hist.sent = [code |-> command.code,
                             tool |-> IF command.code = "T" THEN command.tool
                                      ELSE command.t,
                             s |-> command.s,
                             current_tool |-> s.internal_flags.current_tool]]

\* "T<n>" was sent: its handler of the sent phase runs
ToolChangeSentFor(command) ==
    /\ command.code = "T"
    /\ Commit(GcodeTSent(Sent(S, command), command))

ToolChangeSent == \E n \in ToolIds : ToolChangeSentFor(CommandSetTool(n))

\* "M104 S<s>" or "M104 T<t> S<s>" was sent
ExtruderTempSentFor(command) ==
    /\ command.code = "M104"
    /\ Commit(GcodeM104Sent(Sent(S, command), command, FALSE, FALSE))

ExtruderTempSent ==
    \E sv \in TargetValues, t \in ToolIds \cup {None} :
        ExtruderTempSentFor(CommandSetExtruderTemp(sv, t))

NextTools ==
    \/ ToolChangeSent
    \/ ExtruderTempSent

\* tool changes and extruder targets sent in any order
SpecTools == InitIdle /\ [][NextTools]_vars

\* C35: after T<n> was sent, current_tool is n, for every n >= 0.
ToolChangeTracked ==
    hist.sent.code = "T" => internal_flags.current_tool = hist.sent.tool

\* C36: after M104 S<t> was sent, with or without T<n>, the target of the
\* addressed tool is t: of tool n if T<n> was given, of the tool that was
\* current otherwise, for every n >= 0 and every t >= 0.
TargetFollowsM104 ==
    LET g == hist.sent
        tool == IF g.tool # None THEN g.tool ELSE g.current_tool
    IN  g.code = "M104" =>
           /\ internal_flags.temperatures.tools[tool] # NoSlot
           /\ internal_flags.temperatures.tools[tool][2] = g.s

\* ------------------------------------------------- what a resend leaves alone
\* an ok or a timeout received while a resend window is recorded, and the send
\* loop writing an entry with a predetermined line number
ResendServiced ==
    \/ /\ internal_flags.resend_requested # None
       /\ RecvOk \/ RecvTimeout
    \/ /\ entry.linenumber # None
       /\ SendLoopProcess \/ SendLoopSend

\* C37: servicing a resend, on an ok or a timeout during a resend window and
\* in the send loop's write of the line asked for again, leaves
\* current_linenumber as it is and appends nothing to and removes nothing from
\* the line history
ResendKeepsNumbering ==
    [][ResendServiced =>
           /\ current_linenumber' = current_linenumber
           /\ last_lines' = last_lines]_vars

\* a line is written again under a number below the last one used, after the
\* window was closed by the ok that enqueued it
ResentLineWritten ==
    /\ hist.last_write.src = "resend"
    /\ current_linenumber > 2
    /\ LineHistoryContains(last_lines, 1)

\* ------------------------------------------------------ one resend window
\* the window recorded and the mode of the send queue agree
ResendFlagsAgree ==
    send_queue.resend_active <=> internal_flags.resend_requested # None

\* a resend request for line n received during a window is taken up: it is
\* not the echo of a line sent before the first request, and line n is stored
\* or a job is there to be cancelled
ResendRequestTaken(n) ==
    /\ RecvResendFor(n)
    /\ internal_flags.resend_requested # None
    /\ ~ /\ last_communication_error = "linenumber"
         /\ n = internal_flags.resend_requested
         /\ internal_flags.resend_count < current_linenumber - n - 1
    /\ LineHistoryContains(last_lines, n) \/ IsBusy(S)

\* a request taken up during a window leaves the window of n alone:
\* resend_linenumber is n, or n + 1 after the ok simulated for the request,
\* or the window is closed by that ok
ResendRequestReplaces ==
    \A n \in 0..MaxLine :
        ResendRequestTaken(n) =>
            LET f == internal_flags'
            IN  \/ /\ f.resend_requested = None
                   /\ n = current_linenumber - 1
                \/ /\ f.resend_requested = n
                   /\ f.resend_linenumber \in {n, n + 1}

\* the handler that closes a window has enqueued line c - 1 last and leaves
\* the three fields unset together
ResendWindowCloses ==
    internal_flags.resend_requested # None /\ internal_flags'.resend_requested = None
        => /\ internal_flags'.resend_linenumber = None
           /\ ~send_queue'.resend_active
           /\ send_queue'.resend # <<>>
           /\ send_queue'.resend[Len(send_queue'.resend)].linenumber
                  = current_linenumber - 1

\* an ok that is not ignored, received while operational in a window that
\* has come to line c - 1, closes it
ResendWindowDone ==
    /\ RecvOk
    /\ internal_flags.ignore_ok = 0
    /\ state \in OPERATIONAL_STATES
    /\ internal_flags.resend_requested # None
    /\ internal_flags.resend_linenumber = current_linenumber - 1
    /\ LineHistoryContains(last_lines, current_linenumber - 1)
    => internal_flags'.resend_requested = None

\* C38: between two handler steps send_queue.resend_active is true exactly
\* when resend_requested is set; a resend request received during a window
\* replaces it; a window closes when its last line c - 1 is enqueued, and
\* resend_requested, resend_linenumber and resend_active are reset together
OneResendWindow ==
    /\ []ResendFlagsAgree
    /\ [][ResendRequestReplaces]_vars
    /\ [][ResendWindowCloses]_vars
    /\ [][ResendWindowDone]_vars

\* a request received during a window has replaced it, with a line of the
\* window it replaced still waiting to be written
ResendWindowReplaced ==
    /\ hist.replaced
    /\ internal_flags.resend_requested # None
    /\ send_queue.resend_active
    /\ send_queue.resend # <<>>

\* ------------------------------------------------ a reset during a window
\* C39: after "start" is received while operational no resend window is
\* recorded and the send queue is not in resend mode, so that the hello and
\* the M110 N0 of the reset are not held back behind a resend
NoWindowAfterReset ==
    [][RecvStart /\ state \in OPERATIONAL_STATES =>
           /\ internal_flags'.resend_requested = None
           /\ internal_flags'.resend_linenumber = None
           /\ ~send_queue'.resend_active]_vars

\* ------------------------------------------- line numbers stored twice
\* the positions of the stored entries that carry line number n
StoredAs(h, n) == {i \in 1..Len(h.lines) : h.lines[i][2] = n}

\* C40: after any appends and clears, appends of a line number already stored
\* included, a line number can be looked up exactly if a stored entry carries
\* it, and the lookup gives the line of the last entry appended with it
HistoryLookupMatchesStored ==
    \A n \in 1..MaxHistoryNumber :
        LET at == StoredAs(last_lines, n)
        IN  /\ LineHistoryContains(last_lines, n) <=> at # {}
            /\ at # {} /\ LineHistoryContains(last_lines, n) =>
                   LineHistoryGet(last_lines, n)
                       = last_lines.lines[CHOOSE i \in at : \A j \in at : j <= i][1]

====
